---- MODULE Spec2Model ----
(***************************************************************************)
(* A model of schema-gen: the type inference engine                        *)
(* (src/src/type-inference.ts), the four renderers and the generateAll     *)
(* facade.  JSON values and TypeDefinition trees are records; a JavaScript *)
(* plain object (Record<string, T>) is the sequence of its own enumerable  *)
(* properties in the order Object.keys reports them.                       *)
(***************************************************************************)
EXTENDS Integers, Sequences, FiniteSets, TLC

(***************************************************************************)
(* Bounds of the model.                                                    *)
(***************************************************************************)
\* longest list of examples drawn from SmallExamples
MaxExamples == 3
\* longest list of examples drawn from WideExamples
MaxWideExamples == 2
\* longest list of examples handed to generateAll and to the command
MaxFacadeExamples == 2

(***************************************************************************)
(* Sequence helpers.                                                       *)
(***************************************************************************)
Range(s) == {s[i] : i \in 1..Len(s)}

SeqsUpTo(S, n) == UNION {[1..m -> S] : m \in 0..n}

IsInjective(s) == \A i, j \in 1..Len(s) : s[i] = s[j] => i = j

(***************************************************************************)
(* JSON values, as JSON.parse returns them.  The inference looks at the    *)
(* kind of a value only, so a primitive is its typeof.                     *)
(***************************************************************************)
JNull == [t |-> "null"]
JString == [t |-> "string"]
JNumber == [t |-> "number"]
JBoolean == [t |-> "boolean"]
JArray(es) == [t |-> "array", elems |-> es]
JObject(entries) == [t |-> "object", entries |-> entries]

(***************************************************************************)
(* JavaScript plain objects.  An object is the sequence of its own         *)
(* properties [key, value]; integer-like keys come first in ascending      *)
(* order, the other keys follow in insertion order.  Every plain object    *)
(* inherits the members of Object.prototype.                               *)
(***************************************************************************)
\* integer-like property names of the model, with their numeric value
IntegerKeys == {"1", "2"}
KeyIndex(k) == IF k = "1" THEN 1 ELSE 2

\* names every plain object inherits from Object.prototype
ObjectPrototypeKeys == {"constructor", "__proto__"}

\* the value of a property that is not there
Undefined == [js |-> "undefined"]
\* the value of an inherited member of Object.prototype (a function or an
\* object: truthy, and without kind, items, properties and required)
PrototypeMember == [js |-> "Object.prototype member"]

ObjectKeys(o) == [i \in 1..Len(o) |-> o[i].key]

HasOwn(o, k) == \E i \in 1..Len(o) : o[i].key = k

OwnValue(o, k) == o[CHOOSE i \in 1..Len(o) : o[i].key = k].value

\* o[k], read through the prototype chain
ObjGet(o, k) ==
    IF HasOwn(o, k) THEN OwnValue(o, k)
    ELSE IF k \in ObjectPrototypeKeys THEN PrototypeMember
    ELSE Undefined

\* x.kind / x.items of any JavaScript value
KindOf(x) == IF "kind" \in DOMAIN x THEN x.kind ELSE "undefined"
Truthy(x) == x # Undefined

\* does own key j come before a new key k in Object.keys order?
KeyBefore(j, k) ==
    IF k \in IntegerKeys
    THEN j \in IntegerKeys /\ KeyIndex(j) < KeyIndex(k)
    ELSE TRUE

\* o[k] = v for a plain object o created by an object literal.  An
\* assignment to "__proto__" runs the setter of Object.prototype: it
\* replaces the prototype and creates no own property.
ObjSet(o, k, v) ==
    IF k = "__proto__" THEN o
    ELSE IF HasOwn(o, k)
    THEN [i \in 1..Len(o) |-> IF o[i].key = k THEN [key |-> k, value |-> v] ELSE o[i]]
    ELSE LET n == Cardinality({i \in 1..Len(o) : KeyBefore(o[i].key, k)})
         IN  SubSeq(o, 1, n) \o <<[key |-> k, value |-> v]>> \o SubSeq(o, n + 1, Len(o))

\* the own-property order of an object that JSON.parse builds
CanonicalKeys(ks) ==
    /\ IsInjective(ks)
    /\ \A i, j \in 1..Len(ks) :
          (i < j /\ ks[j] \in IntegerKeys)
              => (ks[i] \in IntegerKeys /\ KeyIndex(ks[i]) < KeyIndex(ks[j]))

(***************************************************************************)
(* src/src/type-inference.ts                                               *)
(***************************************************************************)
TypeKind == {"string", "number", "boolean", "array", "object", "null"}

RECURSIVE inferType(_)
RECURSIVE InferProperties(_, _, _)
RECURSIVE mergeTypes(_)
RECURSIVE mergeObjectTypeDefinitions(_)
RECURSIVE MergeProperties(_, _, _)

\* the loop of inferType over Object.keys(value), from key number i on:
\* properties[key] = inferType(value[key], key)
InferProperties(value, i, properties) ==
    IF i > Len(value) THEN properties
    ELSE InferProperties(value, i + 1,
             ObjSet(properties, value[i].key, inferType(ObjGet(value, value[i].key))))

\* inferType taking the items of an array from its last element
inferType_LastElement(value) ==
    IF value.t = "null" THEN [kind |-> "null"]
    ELSE IF value.t = "string" THEN [kind |-> "string"]
    ELSE IF value.t = "number" THEN [kind |-> "number"]
    ELSE IF value.t = "boolean" THEN [kind |-> "boolean"]
    ELSE IF value.t = "array"
    THEN IF Len(value.elems) = 0
         THEN [kind |-> "array", items |-> [kind |-> "string"]]
         ELSE [kind |-> "array", items |-> inferType(value.elems[Len(value.elems)])]
    ELSE IF value.t = "object"
    THEN [kind |-> "object",
          properties |-> InferProperties(value.entries, 1, <<>>),
          required |-> ObjectKeys(value.entries)]
    ELSE [kind |-> "string"]

\* inferType leaving the array node of an empty array without items
inferType_EmptyArrayUntyped(value) ==
    IF value.t = "null" THEN [kind |-> "null"]
    ELSE IF value.t = "string" THEN [kind |-> "string"]
    ELSE IF value.t = "number" THEN [kind |-> "number"]
    ELSE IF value.t = "boolean" THEN [kind |-> "boolean"]
    ELSE IF value.t = "array"
    THEN IF Len(value.elems) = 0
         THEN [kind |-> "array"]
         ELSE [kind |-> "array", items |-> inferType(value.elems[1])]
    ELSE IF value.t = "object"
    THEN [kind |-> "object",
          properties |-> InferProperties(value.entries, 1, <<>>),
          required |-> ObjectKeys(value.entries)]
    ELSE [kind |-> "string"]

inferType(value) ==
    IF value.t = "null" THEN [kind |-> "null"]
    ELSE IF value.t = "string" THEN [kind |-> "string"]
    ELSE IF value.t = "number" THEN [kind |-> "number"]
    ELSE IF value.t = "boolean" THEN [kind |-> "boolean"]
    ELSE IF value.t = "array"
    THEN IF Len(value.elems) = 0
         THEN [kind |-> "array", items |-> [kind |-> "string"]]
         ELSE [kind |-> "array", items |-> inferType(value.elems[1])]
    ELSE IF value.t = "object"
    THEN [kind |-> "object",
          properties |-> InferProperties(value.entries, 1, <<>>),
          required |-> ObjectKeys(value.entries)]
    ELSE [kind |-> "string"]

RECURSIVE AddAll(_, _)
\* keys.forEach(key => set.add(key)) on an insertion-ordered Set
AddAll(set, keys) ==
    IF keys = <<>> THEN set
    ELSE AddAll(IF Head(keys) \in Range(set) THEN set ELSE Append(set, Head(keys)),
                Tail(keys))

RECURSIVE CollectPropertyNames(_, _)
\* the first loop of mergeObjectTypeDefinitions
CollectPropertyNames(types, allPropertyNames) ==
    IF types = <<>> THEN allPropertyNames
    ELSE CollectPropertyNames(Tail(types),
             IF "properties" \in DOMAIN Head(types)
             THEN AddAll(allPropertyNames, ObjectKeys(Head(types).properties))
             ELSE allPropertyNames)

\* t.properties?.[propName]
PropertyOf(t, propName) ==
    IF "properties" \in DOMAIN t THEN ObjGet(t.properties, propName) ELSE Undefined

\* is a property counted as appearing in a type: t => t.properties?.[propName]
Appears(t, propName) == Truthy(PropertyOf(t, propName))

\* The second loop of mergeObjectTypeDefinitions; acc is the pair of
\* mergedProperties and requiredFields.  First the loop taking a property of
\* the first object for required, whatever the other objects have.
MergeProperties_FirstDecides(types, names, acc) ==
    IF names = <<>> THEN acc
    ELSE LET propName == Head(names)
             appearsInCount == Len(SelectSeq(types, LAMBDA t : Appears(t, propName)))
         IN  IF Appears(types[1], propName)
             THEN LET propertyTypes ==
                          SelectSeq([i \in 1..Len(types) |-> PropertyOf(types[i], propName)],
                                    LAMBDA t : t # Undefined)
                  IN  MergeProperties(types, Tail(names),
                          [properties |-> ObjSet(acc.properties, propName,
                                                 mergeTypes(propertyTypes)),
                           required |-> Append(acc.required, propName)])
             ELSE LET having == SelectSeq(types, LAMBDA t : Appears(t, propName))
                      propertyTypes ==
                          [i \in 1..Len(having) |-> PropertyOf(having[i], propName)]
                  IN  MergeProperties(types, Tail(names),
                          [properties |-> IF Len(propertyTypes) > 0
                                          THEN ObjSet(acc.properties, propName,
                                                      mergeTypes(propertyTypes))
                                          ELSE acc.properties,
                           required |-> acc.required])

MergeProperties(types, names, acc) ==
    IF names = <<>> THEN acc
    ELSE LET propName == Head(names)
             appearsInCount == Len(SelectSeq(types, LAMBDA t : Appears(t, propName)))
         IN  IF appearsInCount = Len(types)
             THEN LET propertyTypes ==
                          SelectSeq([i \in 1..Len(types) |-> PropertyOf(types[i], propName)],
                                    LAMBDA t : t # Undefined)
                  IN  MergeProperties(types, Tail(names),
                          [properties |-> ObjSet(acc.properties, propName,
                                                 mergeTypes(propertyTypes)),
                           required |-> Append(acc.required, propName)])
             ELSE LET having == SelectSeq(types, LAMBDA t : Appears(t, propName))
                      propertyTypes ==
                          [i \in 1..Len(having) |-> PropertyOf(having[i], propName)]
                  IN  MergeProperties(types, Tail(names),
                          [properties |-> IF Len(propertyTypes) > 0
                                          THEN ObjSet(acc.properties, propName,
                                                      mergeTypes(propertyTypes))
                                          ELSE acc.properties,
                           required |-> acc.required])

mergeObjectTypeDefinitions(types) ==
    LET allPropertyNames == CollectPropertyNames(types, <<>>)
        merged == MergeProperties(types, allPropertyNames,
                                  [properties |-> <<>>, required |-> <<>>])
    IN  [kind |-> "object",
         properties |-> merged.properties,
         required |-> merged.required]

\* t.items of any JavaScript value
HasItems(t) == "items" \in DOMAIN t

\* the propertyTypes that mergeObjectTypeDefinitions hands to mergeTypes for
\* propName: of every type when all count as having it, else of those that do
PropertyTypes(types, propName) ==
    IF Len(SelectSeq(types, LAMBDA t : Appears(t, propName))) = Len(types)
    THEN SelectSeq([i \in 1..Len(types) |-> PropertyOf(types[i], propName)],
                   LAMBDA t : t # Undefined)
    ELSE LET having == SelectSeq(types, LAMBDA t : Appears(t, propName))
         IN  [i \in 1..Len(having) |-> PropertyOf(having[i], propName)]

RECURSIVE MergeTypesCalls(_)
RECURSIVE MergeObjectCalls(_)

\* the argument of every call of mergeTypes that mergeTypes(types) leads to,
\* itself included
MergeTypesCalls(types) ==
    {types} \cup
        IF Len(types) < 2 \/ \E i \in 1..Len(types) : KindOf(types[i]) # KindOf(types[1])
        THEN {}
        ELSE IF KindOf(types[1]) = "array" /\ HasItems(types[1])
        THEN LET withItems == SelectSeq(types, HasItems)
             IN  MergeTypesCalls([i \in 1..Len(withItems) |-> withItems[i].items])
        ELSE IF KindOf(types[1]) = "object"
        THEN MergeObjectCalls(types)
        ELSE {}

\* the argument of every call of mergeTypes that
\* mergeObjectTypeDefinitions(types) leads to
MergeObjectCalls(types) ==
    UNION {IF Len(PropertyTypes(types, propName)) > 0
           THEN MergeTypesCalls(PropertyTypes(types, propName))
           ELSE {} :
           propName \in Range(CollectPropertyNames(types, <<>>))}

\* mergeTypes keeping the first type when the kinds differ
mergeTypes_FirstWins(types) ==
    IF Len(types) = 0 THEN [kind |-> "null"]
    ELSE IF Len(types) = 1 THEN types[1]
    ELSE LET firstKind == KindOf(types[1])
             allSameKind == \A i \in 1..Len(types) : KindOf(types[i]) = firstKind
         IN  IF allSameKind
             THEN IF firstKind = "array" /\ HasItems(types[1])
                  THEN LET withItems == SelectSeq(types, HasItems)
                           itemTypes == [i \in 1..Len(withItems) |-> withItems[i].items]
                       IN  [kind |-> "array", items |-> mergeTypes(itemTypes)]
                  ELSE IF firstKind = "object"
                  THEN mergeObjectTypeDefinitions(types)
                  ELSE types[1]
             ELSE types[1]

\* mergeTypes turning the first type into a string on a conflict of kinds,
\* with the fields it had
mergeTypes_KeepsFields(types) ==
    IF Len(types) = 0 THEN [kind |-> "null"]
    ELSE IF Len(types) = 1 THEN types[1]
    ELSE LET firstKind == KindOf(types[1])
             allSameKind == \A i \in 1..Len(types) : KindOf(types[i]) = firstKind
         IN  IF allSameKind
             THEN IF firstKind = "array" /\ HasItems(types[1])
                  THEN LET withItems == SelectSeq(types, HasItems)
                           itemTypes == [i \in 1..Len(withItems) |-> withItems[i].items]
                       IN  [kind |-> "array", items |-> mergeTypes(itemTypes)]
                  ELSE IF firstKind = "object"
                  THEN mergeObjectTypeDefinitions(types)
                  ELSE types[1]
             ELSE [kind |-> "string"] @@ types[1]

\* mergeTypes answering a union of the kinds on a conflict
mergeTypes_Union(types) ==
    IF Len(types) = 0 THEN [kind |-> "null"]
    ELSE IF Len(types) = 1 THEN types[1]
    ELSE LET firstKind == KindOf(types[1])
             allSameKind == \A i \in 1..Len(types) : KindOf(types[i]) = firstKind
         IN  IF allSameKind
             THEN IF firstKind = "array" /\ HasItems(types[1])
                  THEN LET withItems == SelectSeq(types, HasItems)
                           itemTypes == [i \in 1..Len(withItems) |-> withItems[i].items]
                       IN  [kind |-> "array", items |-> mergeTypes(itemTypes)]
                  ELSE IF firstKind = "object"
                  THEN mergeObjectTypeDefinitions(types)
                  ELSE types[1]
             ELSE [kind |-> "union"]

mergeTypes(types) ==
    IF Len(types) = 0 THEN [kind |-> "null"]
    ELSE IF Len(types) = 1 THEN types[1]
    ELSE LET firstKind == KindOf(types[1])
             allSameKind == \A i \in 1..Len(types) : KindOf(types[i]) = firstKind
         IN  IF allSameKind
             THEN IF firstKind = "array" /\ HasItems(types[1])
                  THEN LET withItems == SelectSeq(types, HasItems)
                           itemTypes == [i \in 1..Len(withItems) |-> withItems[i].items]
                       IN  [kind |-> "array", items |-> mergeTypes(itemTypes)]
                  ELSE IF firstKind = "object"
                  THEN mergeObjectTypeDefinitions(types)
                  ELSE types[1]
             ELSE [kind |-> "string"]

\* inferTypeFromExamples returning {kind: null} for fewer than two examples
inferTypeFromExamples_NoSingle(examples) ==
    IF Len(examples) <= 1 THEN [kind |-> "null"]
    ELSE LET allTypes == [i \in 1..Len(examples) |-> inferType(examples[i])]
             allAreObjects == \A i \in 1..Len(allTypes) : allTypes[i].kind = "object"
         IN  IF allAreObjects
             THEN mergeObjectTypeDefinitions(
                      SelectSeq(allTypes, LAMBDA t : t.kind = "object"))
             ELSE LET nonNull == SelectSeq(allTypes, LAMBDA t : t.kind # "null")
                  IN  IF nonNull # <<>> THEN nonNull[1] ELSE [kind |-> "null"]

\* inferTypeFromExamples returning the type of the first example, null or
\* not, when the examples are not all objects
inferTypeFromExamples_FirstType(examples) ==
    IF Len(examples) = 0 THEN [kind |-> "null"]
    ELSE IF Len(examples) = 1 THEN inferType(examples[1])
    ELSE LET allTypes == [i \in 1..Len(examples) |-> inferType(examples[i])]
             allAreObjects == \A i \in 1..Len(allTypes) : allTypes[i].kind = "object"
         IN  IF allAreObjects
             THEN mergeObjectTypeDefinitions(
                      SelectSeq(allTypes, LAMBDA t : t.kind = "object"))
             ELSE allTypes[1]

inferTypeFromExamples(examples) ==
    IF Len(examples) = 0 THEN [kind |-> "null"]
    ELSE IF Len(examples) = 1 THEN inferType(examples[1])
    ELSE LET allTypes == [i \in 1..Len(examples) |-> inferType(examples[i])]
             allAreObjects == \A i \in 1..Len(allTypes) : allTypes[i].kind = "object"
         IN  IF allAreObjects
             THEN mergeObjectTypeDefinitions(
                      SelectSeq(allTypes, LAMBDA t : t.kind = "object"))
             ELSE LET nonNull == SelectSeq(allTypes, LAMBDA t : t.kind # "null")
                  IN  IF nonNull # <<>> THEN nonNull[1] ELSE [kind |-> "null"]

(***************************************************************************)
(* Generated text.  A text is the sequence of the pieces a template        *)
(* literal concatenates: the text itself is their concatenation.  A line   *)
(* break is the piece "\n".  Property names of the model contain none of   *)
(* the characters the renderers search for.                                *)
(***************************************************************************)
\* '  '.repeat(indent)
Indentation(indent) == [i \in 1..indent |-> "  "]

\* the pieces that contain a character the renderers search for
PiecesWith(ch) ==
    IF ch = "\n" THEN {"\n"}
    ELSE IF ch = "{" THEN {"{", "z.object({"}
    ELSE IF ch = "[" THEN {"[]", "any[]"}
    ELSE {}

\* text.includes(ch)
Includes(text, ch) == \E i \in 1..Len(text) : text[i] \in PiecesWith(ch)

RECURSIVE Split(_, _)
\* text.split(sep), for a separator that is a piece
Split(text, sep) ==
    IF \A i \in 1..Len(text) : text[i] # sep THEN <<text>>
    ELSE LET n == CHOOSE i \in 1..Len(text) :
                      text[i] = sep /\ \A j \in 1..(i - 1) : text[j] # sep
         IN  <<SubSeq(text, 1, n - 1)>> \o Split(SubSeq(text, n + 1, Len(text)), sep)

RECURSIVE Join(_, _)
\* lines.join(sep)
Join(lines, sep) ==
    IF lines = <<>> THEN <<>>
    ELSE IF Len(lines) = 1 THEN lines[1]
    ELSE lines[1] \o <<sep>> \o Join(Tail(lines), sep)

\* typeDef.properties is missing or has no own key
NoProperties(typeDef) == "properties" \notin DOMAIN typeDef \/ typeDef.properties = <<>>

\* new Set(typeDef.required || [])
RequiredSet(typeDef) == IF "required" \in DOMAIN typeDef THEN Range(typeDef.required) ELSE {}

(***************************************************************************)
(* src/unnamed/part_001 (generators/json-schema.ts).  The schema is kept   *)
(* as the object handed to JSON.stringify.                                 *)
(***************************************************************************)
RECURSIVE convertTypeToJsonSchema(_)
RECURSIVE ConvertProperties(_, _, _)

\* for (const [key, value] of Object.entries(typeDef.properties))
\*     properties[key] = convertTypeToJsonSchema(value)
ConvertProperties(entries, i, properties) ==
    IF i > Len(entries) THEN properties
    ELSE ConvertProperties(entries, i + 1,
             ObjSet(properties, entries[i].key, convertTypeToJsonSchema(entries[i].value)))

convertTypeToJsonSchema(typeDef) ==
    IF typeDef.kind \in {"string", "number", "boolean", "null"}
    THEN [type |-> typeDef.kind]
    ELSE IF typeDef.kind = "array"
    THEN [type |-> "array",
          items |-> IF HasItems(typeDef) THEN convertTypeToJsonSchema(typeDef.items)
                    ELSE [type |-> "string"]]
    ELSE IF typeDef.kind = "object"
    THEN LET required == IF "required" \in DOMAIN typeDef THEN typeDef.required ELSE <<>>
             properties == IF "properties" \in DOMAIN typeDef
                           THEN ConvertProperties(typeDef.properties, 1, <<>>)
                           ELSE <<>>
         IN  [type |-> "object"]
                 @@ (IF Len(properties) > 0 THEN [properties |-> properties] ELSE <<>>)
                 @@ (IF Len(required) > 0 THEN [required |-> required] ELSE <<>>)
    ELSE [type |-> "string"]

generateJsonSchema(typeName, typeDef) ==
    ("$schema" :> "http://json-schema.org/draft-07/schema#")
        @@ ("$id" :> <<"https://example.com/schemas/", typeName, ".json">>)
        @@ [title |-> typeName,
            description |-> <<"Auto-generated schema for ", typeName>>]
        @@ convertTypeToJsonSchema(typeDef)

(***************************************************************************)
(* src/src/generators/typescript.ts, lines 1-74: the TypeScript renderer.  *)
(***************************************************************************)
RECURSIVE convertTypeToTypeScript(_, _)
RECURSIVE TypeScriptFields(_, _, _)

\* the lines of Object.entries(typeDef.properties).map(...), from entry i on
TypeScriptFields(typeDef, indent, i) ==
    IF i > Len(typeDef.properties) THEN <<>>
    ELSE LET key == typeDef.properties[i].key
             fieldType == convertTypeToTypeScript(typeDef.properties[i].value, indent + 1)
             isOptional == key \notin RequiredSet(typeDef)
         IN  <<Indentation(indent) \o <<"  ", key>>
                   \o (IF isOptional THEN <<"?">> ELSE <<>>)
                   \o <<": ">> \o fieldType \o <<";">>>>
                 \o TypeScriptFields(typeDef, indent, i + 1)

\* convertTypeToTypeScript wrapping an element type only when it has a brace
convertTypeToTypeScript_BracesOnly(typeDef, indent) ==
    IF typeDef.kind \in {"string", "number", "boolean", "null"}
    THEN <<typeDef.kind>>
    ELSE IF typeDef.kind = "array"
    THEN IF HasItems(typeDef)
         THEN LET itemType == convertTypeToTypeScript(typeDef.items, indent)
              IN  IF Includes(itemType, "{")
                  THEN <<"Array<">> \o itemType \o <<">">>
                  ELSE itemType \o <<"[]">>
         ELSE <<"any[]">>
    ELSE IF typeDef.kind = "object"
    THEN IF NoProperties(typeDef)
         THEN <<"Record<string, any>">>
         ELSE <<"{", "\n">> \o Join(TypeScriptFields(typeDef, indent, 1), "\n")
                  \o <<"\n">> \o Indentation(indent) \o <<"}">>
    ELSE <<"any">>

convertTypeToTypeScript(typeDef, indent) ==
    IF typeDef.kind \in {"string", "number", "boolean", "null"}
    THEN <<typeDef.kind>>
    ELSE IF typeDef.kind = "array"
    THEN IF HasItems(typeDef)
         THEN LET itemType == convertTypeToTypeScript(typeDef.items, indent)
              IN  IF Includes(itemType, "|") \/ Includes(itemType, "{")
                         \/ Includes(itemType, "[")
                  THEN <<"Array<">> \o itemType \o <<">">>
                  ELSE itemType \o <<"[]">>
         ELSE <<"any[]">>
    ELSE IF typeDef.kind = "object"
    THEN IF NoProperties(typeDef)
         THEN <<"Record<string, any>">>
         ELSE <<"{", "\n">> \o Join(TypeScriptFields(typeDef, indent, 1), "\n")
                  \o <<"\n">> \o Indentation(indent) \o <<"}">>
    ELSE <<"any">>

generateTypeScript(typeName, typeDef) ==
    <<"export interface ", typeName, " ">> \o convertTypeToTypeScript(typeDef, 0)

(***************************************************************************)
(* src/src/generators/typescript.ts, lines 76-168: the Zod renderer.       *)
(***************************************************************************)
RECURSIVE convertTypeToZod(_, _)
RECURSIVE ZodFields(_, _, _)

\* lines.slice(1).map(l => indentation + '    ' + l)
ReindentRest(lines, indent) ==
    [i \in 1..(Len(lines) - 1) |-> Indentation(indent) \o <<"    ">> \o lines[i + 1]]

\* ZodFields marking optional fields only in the outermost z.object
ZodFields_OptionalAtTopOnly(typeDef, indent, i) ==
    IF i > Len(typeDef.properties) THEN <<>>
    ELSE LET key == typeDef.properties[i].key
             fieldSchema == convertTypeToZod(typeDef.properties[i].value, indent + 2)
             isOptional == indent = 0 /\ key \notin RequiredSet(typeDef)
             lines == Split(fieldSchema, "\n")
             baseSchema == lines[1] \o <<"\n">> \o Join(ReindentRest(lines, indent), "\n")
             schema == IF Includes(fieldSchema, "\n") THEN baseSchema ELSE fieldSchema
         IN  <<Indentation(indent) \o <<"    ", key, ": ">> \o schema
                   \o (IF isOptional THEN <<".optional()">> ELSE <<>>) \o <<",">>>>
                 \o ZodFields(typeDef, indent, i + 1)

ZodFields(typeDef, indent, i) ==
    IF i > Len(typeDef.properties) THEN <<>>
    ELSE LET key == typeDef.properties[i].key
             fieldSchema == convertTypeToZod(typeDef.properties[i].value, indent + 2)
             isOptional == key \notin RequiredSet(typeDef)
             lines == Split(fieldSchema, "\n")
             baseSchema == lines[1] \o <<"\n">> \o Join(ReindentRest(lines, indent), "\n")
             schema == IF Includes(fieldSchema, "\n") THEN baseSchema ELSE fieldSchema
         IN  <<Indentation(indent) \o <<"    ", key, ": ">> \o schema
                   \o (IF isOptional THEN <<".optional()">> ELSE <<>>) \o <<",">>>>
                 \o ZodFields(typeDef, indent, i + 1)

\* convertTypeToZod writing a record only for an object without a
\* properties map
convertTypeToZod_RecordWhenMissing(typeDef, indent) ==
    IF typeDef.kind \in {"string", "number", "boolean", "null"}
    THEN <<"z." \o typeDef.kind \o "()">>
    ELSE IF typeDef.kind = "array"
    THEN IF HasItems(typeDef)
         THEN LET itemSchema == convertTypeToZod(typeDef.items, indent)
              IN  IF Includes(itemSchema, "\n")
                  THEN <<"z.array(", "\n">> \o Indentation(indent) \o <<"  ">>
                           \o itemSchema \o <<"\n">> \o Indentation(indent) \o <<")">>
                  ELSE <<"z.array(">> \o itemSchema \o <<")">>
         ELSE <<"z.array(z.any())">>
    ELSE IF typeDef.kind = "object"
    THEN IF "properties" \notin DOMAIN typeDef
         THEN <<"z.record(z.any())">>
         ELSE <<"z.object({", "\n">> \o Join(ZodFields(typeDef, indent, 1), "\n")
                  \o <<"\n">> \o Indentation(indent) \o <<"})">>
    ELSE <<"z.any()">>

convertTypeToZod(typeDef, indent) ==
    IF typeDef.kind \in {"string", "number", "boolean", "null"}
    THEN <<"z." \o typeDef.kind \o "()">>
    ELSE IF typeDef.kind = "array"
    THEN IF HasItems(typeDef)
         THEN LET itemSchema == convertTypeToZod(typeDef.items, indent)
              IN  IF Includes(itemSchema, "\n")
                  THEN <<"z.array(", "\n">> \o Indentation(indent) \o <<"  ">>
                           \o itemSchema \o <<"\n">> \o Indentation(indent) \o <<")">>
                  ELSE <<"z.array(">> \o itemSchema \o <<")">>
         ELSE <<"z.array(z.any())">>
    ELSE IF typeDef.kind = "object"
    THEN IF NoProperties(typeDef)
         THEN <<"z.record(z.any())">>
         ELSE <<"z.object({", "\n">> \o Join(ZodFields(typeDef, indent, 1), "\n")
                  \o <<"\n">> \o Indentation(indent) \o <<"})">>
    ELSE <<"z.any()">>

generateZod(typeName, typeDef) ==
    <<"export const ", typeName, "Schema = ">> \o convertTypeToZod(typeDef, 0)
        \o <<";", "\n", "\n", "export type ", typeName, " = z.infer<typeof ",
             typeName, "Schema>;">>

(***************************************************************************)
(* src/unnamed/part_003 (generators/api-doc.js).                           *)
(***************************************************************************)
\* the piece that stands for the grave accent (U+0060) of the Markdown text
Backtick == "<grave accent>"

RECURSIVE getTypeDisplayName(_)
getTypeDisplayName(typeDef) ==
    IF typeDef.kind \in {"string", "number", "boolean", "null"}
    THEN <<typeDef.kind>>
    ELSE IF typeDef.kind = "array"
    THEN IF HasItems(typeDef) THEN getTypeDisplayName(typeDef.items) \o <<"[]">>
         ELSE <<"any[]">>
    ELSE IF typeDef.kind = "object"
    THEN IF NoProperties(typeDef) THEN <<"object">>
         ELSE <<"{ ">> \o Join([i \in 1..Len(typeDef.properties) |->
                                   <<typeDef.properties[i].key>>], ", ") \o <<" }">>
    ELSE <<"any">>

getTypeDescription(typeDef) ==
    IF "description" \in DOMAIN typeDef /\ typeDef.description # "" THEN typeDef.description
    ELSE IF typeDef.kind = "string" THEN "A string value"
    ELSE IF typeDef.kind = "number" THEN "A numeric value"
    ELSE IF typeDef.kind = "boolean" THEN "A boolean value (true/false)"
    ELSE IF typeDef.kind = "null" THEN "A null value"
    ELSE IF typeDef.kind = "array" THEN "An array of items"
    ELSE IF typeDef.kind = "object" THEN "An object with properties"
    ELSE ""

RECURSIVE generateExample(_, _)
generateExample(typeDef, indent) ==
    IF typeDef.kind = "string" THEN <<"\"example\"">>
    ELSE IF typeDef.kind = "number" THEN <<"123">>
    ELSE IF typeDef.kind = "boolean" THEN <<"true">>
    ELSE IF typeDef.kind = "null" THEN <<"null">>
    ELSE IF typeDef.kind = "array"
    THEN IF HasItems(typeDef)
         THEN <<"[", "\n">> \o Indentation(indent) \o <<"  ">>
                  \o generateExample(typeDef.items, 0)
                  \o <<"\n">> \o Indentation(indent) \o <<"]">>
         ELSE <<"[]">>
    ELSE IF typeDef.kind = "object"
    THEN IF NoProperties(typeDef) THEN <<"{}">>
         ELSE <<"{", "\n">>
                  \o Join([i \in 1..Len(typeDef.properties) |->
                              Indentation(indent)
                                  \o <<"  ", "\"", typeDef.properties[i].key, "\"", ": ">>
                                  \o generateExample(typeDef.properties[i].value, indent + 1)],
                          ",\n")
                  \o <<"\n">> \o Indentation(indent) \o <<"}">>
    ELSE <<"null">>

\* the table rows of generateApiDoc with every property marked Yes
ApiDocRows_AlwaysYes(typeDef) ==
    IF typeDef.kind = "object" /\ "properties" \in DOMAIN typeDef
    THEN [i \in 1..Len(typeDef.properties) |->
             LET key == typeDef.properties[i].key
                 value == typeDef.properties[i].value
             IN  <<"| ", key, " | ", Backtick>> \o getTypeDisplayName(value)
                     \o <<Backtick, " | ", "Yes", " | ", getTypeDescription(value), " |">>]
    ELSE <<<<"| ", "*value*", " | ", Backtick>> \o getTypeDisplayName(typeDef)
               \o <<Backtick, " | ", "Yes", " | ", getTypeDescription(typeDef), " |">>>>

\* the table rows of generateApiDoc taking an object without properties for
\* a value, as the other renderers do
ApiDocRows_ValueRowWhenEmpty(typeDef) ==
    IF typeDef.kind = "object" /\ ~NoProperties(typeDef)
    THEN [i \in 1..Len(typeDef.properties) |->
             LET key == typeDef.properties[i].key
                 value == typeDef.properties[i].value
             IN  <<"| ", key, " | ", Backtick>> \o getTypeDisplayName(value)
                     \o <<Backtick, " | ", IF key \in RequiredSet(typeDef) THEN "Yes" ELSE "No",
                          " | ", getTypeDescription(value), " |">>]
    ELSE <<<<"| ", "*value*", " | ", Backtick>> \o getTypeDisplayName(typeDef)
               \o <<Backtick, " | ", "Yes", " | ", getTypeDescription(typeDef), " |">>>>

ApiDocRows(typeDef) ==
    IF typeDef.kind = "object" /\ "properties" \in DOMAIN typeDef
    THEN [i \in 1..Len(typeDef.properties) |->
             LET key == typeDef.properties[i].key
                 value == typeDef.properties[i].value
             IN  <<"| ", key, " | ", Backtick>> \o getTypeDisplayName(value)
                     \o <<Backtick, " | ", IF key \in RequiredSet(typeDef) THEN "Yes" ELSE "No",
                          " | ", getTypeDescription(value), " |">>]
    ELSE <<<<"| ", "*value*", " | ", Backtick>> \o getTypeDisplayName(typeDef)
               \o <<Backtick, " | ", "Yes", " | ", getTypeDescription(typeDef), " |">>>>

generateApiDoc(typeName, typeDef) ==
    Join(<<<<"# ", typeName>>, <<>>, <<"## Schema">>, <<>>,
           <<"| Field | Type | Required | Description |">>,
           <<"|-------|------|----------|-------------|">>>>
             \o ApiDocRows(typeDef)
             \o <<<<>>, <<"## Example">>, <<>>, <<Backtick, Backtick, Backtick, "json">>,
                  generateExample(typeDef, 0), <<Backtick, Backtick, Backtick>>>>,
         "\n")

(***************************************************************************)
(* src/unnamed/part_000 (index.ts): generateAll.  The run of a handler is  *)
(* the record of the type it inferred, the calls it made in order (an      *)
(* inference call with the type it returned, a renderer call with the type *)
(* it was given) and the outputs it built.                                 *)
(***************************************************************************)
ZodImport == <<"import { z } from 'zod';", "\n", "\n">>

\* generateAll with a second inference for the Zod output
generateAll_InfersTwice(json, typeName) ==
    LET typeDef == inferType(json)
        again == IF json.t = "array" THEN inferTypeFromExamples(json.elems) ELSE typeDef
    IN  [typeDef |-> typeDef,
         calls |-> <<[fn |-> "inferType", typeDef |-> typeDef],
                     [fn |-> "generateJsonSchema", typeDef |-> typeDef],
                     [fn |-> "generateTypeScript", typeDef |-> typeDef],
                     [fn |-> "inferTypeFromExamples", typeDef |-> again],
                     [fn |-> "generateZod", typeDef |-> again],
                     [fn |-> "generateApiDoc", typeDef |-> typeDef]>>,
         outputs |-> [jsonSchema |-> generateJsonSchema(typeName, typeDef),
                      typescript |-> generateTypeScript(typeName, typeDef),
                      zod |-> ZodImport \o generateZod(typeName, again),
                      apiDoc |-> generateApiDoc(typeName, typeDef)]]

\* generateAll merging the elements of a list of examples
generateAll_MergesList(json, typeName) ==
    LET typeDef == IF json.t = "array" /\ Len(json.elems) > 1
                   THEN inferTypeFromExamples(json.elems)
                   ELSE inferType(json)
    IN  [typeDef |-> typeDef,
         calls |-> <<[fn |-> "inferType", typeDef |-> typeDef],
                     [fn |-> "generateJsonSchema", typeDef |-> typeDef],
                     [fn |-> "generateTypeScript", typeDef |-> typeDef],
                     [fn |-> "generateZod", typeDef |-> typeDef],
                     [fn |-> "generateApiDoc", typeDef |-> typeDef]>>,
         outputs |-> [jsonSchema |-> generateJsonSchema(typeName, typeDef),
                      typescript |-> generateTypeScript(typeName, typeDef),
                      zod |-> ZodImport \o generateZod(typeName, typeDef),
                      apiDoc |-> generateApiDoc(typeName, typeDef)]]

generateAll(json, typeName) ==
    LET typeDef == inferType(json)
    IN  [typeDef |-> typeDef,
         calls |-> <<[fn |-> "inferType", typeDef |-> typeDef],
                     [fn |-> "generateJsonSchema", typeDef |-> typeDef],
                     [fn |-> "generateTypeScript", typeDef |-> typeDef],
                     [fn |-> "generateZod", typeDef |-> typeDef],
                     [fn |-> "generateApiDoc", typeDef |-> typeDef]>>,
         outputs |-> [jsonSchema |-> generateJsonSchema(typeName, typeDef),
                      typescript |-> generateTypeScript(typeName, typeDef),
                      zod |-> ZodImport \o generateZod(typeName, typeDef),
                      apiDoc |-> generateApiDoc(typeName, typeDef)]]

(***************************************************************************)
(* src/dist/cli.js: the action of the command.  A command-line argument is *)
(* the text of a JSON value, kept as [json |-> the value it parses to], or *)
(* a malformed text.  The --formats option is kept as the list of its      *)
(* comma-separated items.  The colours of chalk are left out.              *)
(***************************************************************************)
\* the formats in another order
ALL_FORMATS_Reordered == <<"typescript", "json-schema", "zod", "api-doc">>

ALL_FORMATS == <<"json-schema", "typescript", "zod", "api-doc">>

\* the extensions of typescript and zod exchanged
FORMAT_EXTENSIONS_Swapped ==
    ("json-schema" :> ".schema.json") @@ ("typescript" :> ".zod.ts")
        @@ ("zod" :> ".ts") @@ ("api-doc" :> ".md")

FORMAT_EXTENSIONS ==
    ("json-schema" :> ".schema.json") @@ ("typescript" :> ".ts")
        @@ ("zod" :> ".zod.ts") @@ ("api-doc" :> ".md")

Malformed == [malformed |-> TRUE]

\* does JSON.parse(str) throw?
ParseFails(str) == "json" \notin DOMAIN str

\* f.trim(), for the items of the model
Trim(f) ==
    IF f = " typescript" THEN "typescript"
    ELSE IF f = "zod " THEN "zod"
    ELSE f

\* a rejection that comes after the output directory was created
CliRejected_AfterMkdir(stderr) ==
    [exit |-> 1, typeDef |-> Undefined, calls |-> <<>>, outputs |-> <<>>,
     mkdir |-> TRUE, writes |-> <<>>, stdout |-> <<>>, stderr |-> stderr]

\* the outcome of a run that ends in process.exit(1) before the inference
CliRejected(stderr) ==
    [exit |-> 1, typeDef |-> Undefined, calls |-> <<>>, outputs |-> <<>>,
     mkdir |-> FALSE, writes |-> <<>>, stdout |-> <<>>, stderr |-> stderr]

cliAction(jsonStrings, options) ==
    IF \E i \in 1..Len(jsonStrings) : ParseFails(jsonStrings[i])
    THEN CliRejected(<<"Error parsing JSON", "Error">>)
    ELSE
    LET jsonExamples == [i \in 1..Len(jsonStrings) |-> jsonStrings[i].json]
        formats == IF options.formats # <<"all">>
                   THEN [i \in 1..Len(options.formats) |-> Trim(options.formats[i])]
                   ELSE ALL_FORMATS
        invalidFormats == SelectSeq(formats, LAMBDA f : f \notin Range(ALL_FORMATS))
    IN
    IF options.formats # <<"all">> /\ Len(invalidFormats) > 0
    THEN CliRejected(<<"Invalid formats", "Available formats">>)
    ELSE
    LET many == Len(jsonExamples) > 1
        typeDef == IF many THEN inferTypeFromExamples(jsonExamples)
                   ELSE inferType(jsonExamples[1])
        typeName == options.prefix
        outputs == ("json-schema" :> generateJsonSchema(typeName, typeDef))
                       @@ ("typescript" :> generateTypeScript(typeName, typeDef))
                       @@ ("zod" :> ZodImport \o generateZod(typeName, typeDef))
                       @@ ("api-doc" :> generateApiDoc(typeName, typeDef))
    IN  [exit |-> 0,
         typeDef |-> typeDef,
         calls |-> <<[fn |-> IF many THEN "inferTypeFromExamples" ELSE "inferType",
                      typeDef |-> typeDef],
                     [fn |-> "generateJsonSchema", typeDef |-> typeDef],
                     [fn |-> "generateTypeScript", typeDef |-> typeDef],
                     [fn |-> "generateZod", typeDef |-> typeDef],
                     [fn |-> "generateApiDoc", typeDef |-> typeDef]>>,
         outputs |-> outputs,
         mkdir |-> options.write /\ ~options.dirExists,
         writes |-> IF options.write
                    THEN [i \in 1..Len(formats) |->
                             [file |-> <<typeName, FORMAT_EXTENSIONS[formats[i]]>>,
                              content |-> outputs[formats[i]]]]
                    ELSE <<>>,
         stdout |-> IF options.write
                    THEN [i \in 1..Len(formats) |->
                             [line |-> formats[i],
                              file |-> <<typeName, FORMAT_EXTENSIONS[formats[i]]>>]]
                             \o <<[line |-> "Done", count |-> Len(formats)]>>
                    ELSE <<[line |-> "header", name |-> typeName]>>
                             \o [i \in 1..Len(formats) |->
                                    [line |-> formats[i], text |-> outputs[formats[i]]]],
         stderr |-> <<>>]

(***************************************************************************)
(* The same functions followed by reference.  Every object and array the   *)
(* code creates is a cell of the heap, a sequence indexed by address; a    *)
(* field that holds an object holds the reference [ref |-> address].  A    *)
(* TypeDefinition is a cell with kind and, when set, items, properties and *)
(* required; a properties map is a cell with its own entries in key order  *)
(* and its prototype (0 for Object.prototype); an array of names is a cell *)
(* with elems.  A function returns the heap it leaves and its result.      *)
(***************************************************************************)
Ref(a) == [ref |-> a]
IsRef(x) == "ref" \in DOMAIN x

\* a new object: {...}, [...]
Alloc(h, cell) == [heap |-> Append(h, cell), at |-> Ref(Len(h) + 1)]

EmptyMap == [entries |-> <<>>, proto |-> 0]

\* m[key] = v on the map at reference m; v is an object.  The key
\* "__proto__" runs the setter: v becomes the prototype of the map.
MapSetH(h, m, key, v) ==
    IF key = "__proto__"
    THEN IF IsRef(v) THEN [h EXCEPT ![m.ref].proto = v.ref] ELSE h
    ELSE [h EXCEPT ![m.ref].entries = ObjSet(@, key, v)]

\* m[key], read through the prototype chain: own entries, then the fields
\* of the object set as prototype, then Object.prototype
MapGetH(h, m, key) ==
    LET map == h[m.ref]
    IN  IF HasOwn(map.entries, key) THEN OwnValue(map.entries, key)
        ELSE IF key = "__proto__" /\ map.proto # 0 THEN Ref(map.proto)
        ELSE IF map.proto # 0 /\ key \in DOMAIN h[map.proto]
        THEN [js |-> "field of the prototype", name |-> key]
        ELSE IF key \in ObjectPrototypeKeys THEN PrototypeMember
        ELSE Undefined

\* array.push(name) on the array at reference a
PushH(h, a, name) == [h EXCEPT ![a.ref].elems = Append(@, name)]

\* x.kind and x.items of any JavaScript value
KindOfH(h, x) == IF IsRef(x) /\ "kind" \in DOMAIN h[x.ref] THEN h[x.ref].kind ELSE "undefined"
HasItemsH(h, x) == IsRef(x) /\ "items" \in DOMAIN h[x.ref]

RECURSIVE inferTypeH(_, _)
RECURSIVE InferPropertiesH(_, _, _, _)

\* for (const key of keys) properties[key] = inferType(value[key], key),
\* from key number i on; returns the heap
InferPropertiesH(h, value, i, properties) ==
    IF i > Len(value) THEN h
    ELSE LET r == inferTypeH(h, ObjGet(value, value[i].key))
         IN  InferPropertiesH(MapSetH(r.heap, properties, value[i].key, r.at),
                              value, i + 1, properties)

\* inferType listing the required names in an order that depends on the
\* address the object is built at
inferTypeH_AddressOrder(h, value) ==
    IF value.t \in {"null", "string", "number", "boolean"}
    THEN Alloc(h, [kind |-> value.t])
    ELSE IF value.t = "array"
    THEN IF Len(value.elems) = 0
         THEN LET items == Alloc(h, [kind |-> "string"])
              IN  Alloc(items.heap, [kind |-> "array", items |-> items.at])
         ELSE LET itemsType == inferTypeH(h, value.elems[1])
              IN  Alloc(itemsType.heap, [kind |-> "array", items |-> itemsType.at])
    ELSE IF value.t = "object"
    THEN LET properties == Alloc(h, EmptyMap)
             names == ObjectKeys(value.entries)
             keys == Alloc(properties.heap,
                           [elems |-> IF Len(h) % 2 = 0 THEN names
                                      ELSE [i \in 1..Len(names) |->
                                               names[Len(names) + 1 - i]]])
             filled == InferPropertiesH(keys.heap, value.entries, 1, properties.at)
         IN  Alloc(filled, [kind |-> "object", properties |-> properties.at,
                            required |-> keys.at])
    ELSE Alloc(h, [kind |-> "string"])

inferTypeH(h, value) ==
    IF value.t \in {"null", "string", "number", "boolean"}
    THEN Alloc(h, [kind |-> value.t])
    ELSE IF value.t = "array"
    THEN IF Len(value.elems) = 0
         THEN LET items == Alloc(h, [kind |-> "string"])
              IN  Alloc(items.heap, [kind |-> "array", items |-> items.at])
         ELSE LET itemsType == inferTypeH(h, value.elems[1])
              IN  Alloc(itemsType.heap, [kind |-> "array", items |-> itemsType.at])
    ELSE IF value.t = "object"
    THEN LET properties == Alloc(h, EmptyMap)
             keys == Alloc(properties.heap, [elems |-> ObjectKeys(value.entries)])
             filled == InferPropertiesH(keys.heap, value.entries, 1, properties.at)
         IN  Alloc(filled, [kind |-> "object", properties |-> properties.at,
                            required |-> keys.at])
    ELSE Alloc(h, [kind |-> "string"])

\* t.properties?.[propName] of any JavaScript value t
PropertyOfH(h, t, propName) ==
    IF IsRef(t) /\ "properties" \in DOMAIN h[t.ref]
    THEN MapGetH(h, h[t.ref].properties, propName)
    ELSE Undefined

AppearsH(h, t, propName) == Truthy(PropertyOfH(h, t, propName))

RECURSIVE CollectPropertyNamesH(_, _, _)
\* the first loop of mergeObjectTypeDefinitions; allPropertyNames is a Set
\* local to the call, kept in insertion order
CollectPropertyNamesH(h, types, allPropertyNames) ==
    IF types = <<>> THEN allPropertyNames
    ELSE CollectPropertyNamesH(h, Tail(types),
             IF IsRef(Head(types)) /\ "properties" \in DOMAIN h[Head(types).ref]
             THEN AddAll(allPropertyNames,
                         ObjectKeys(h[h[Head(types).ref].properties.ref].entries))
             ELSE allPropertyNames)

RECURSIVE mergeTypesH(_, _)
RECURSIVE mergeObjectTypeDefinitionsH(_, _)
RECURSIVE MergePropertiesH(_, _, _, _, _)

\* the second loop of mergeObjectTypeDefinitions, writing to the maps at
\* mergedProperties and requiredFields; returns the heap.  The arrays that
\* map and filter build live for one statement and are kept as values.
MergePropertiesH(h, types, names, mergedProperties, requiredFields) ==
    IF names = <<>> THEN h
    ELSE LET propName == Head(names)
             having == SelectSeq(types, LAMBDA t : AppearsH(h, t, propName))
             appearsInCount == Len(having)
         IN  IF appearsInCount = Len(types)
             THEN LET pushed == PushH(h, requiredFields, propName)
                      propertyTypes ==
                          SelectSeq([i \in 1..Len(types) |->
                                        PropertyOfH(h, types[i], propName)],
                                    LAMBDA t : t # Undefined)
                      merged == mergeTypesH(pushed, propertyTypes)
                  IN  MergePropertiesH(
                          MapSetH(merged.heap, mergedProperties, propName, merged.at),
                          types, Tail(names), mergedProperties, requiredFields)
             ELSE LET propertyTypes ==
                          [i \in 1..Len(having) |-> PropertyOfH(h, having[i], propName)]
                  IN  IF Len(propertyTypes) > 0
                      THEN LET merged == mergeTypesH(h, propertyTypes)
                           IN  MergePropertiesH(
                                   MapSetH(merged.heap, mergedProperties, propName,
                                           merged.at),
                                   types, Tail(names), mergedProperties, requiredFields)
                      ELSE MergePropertiesH(h, types, Tail(names),
                                            mergedProperties, requiredFields)

mergeObjectTypeDefinitionsH(h, types) ==
    LET mergedProperties == Alloc(h, EmptyMap)
        requiredFields == Alloc(mergedProperties.heap, [elems |-> <<>>])
        allPropertyNames == CollectPropertyNamesH(requiredFields.heap, types, <<>>)
        merged == MergePropertiesH(requiredFields.heap, types, allPropertyNames,
                                   mergedProperties.at, requiredFields.at)
    IN  Alloc(merged, [kind |-> "object", properties |-> mergedProperties.at,
                       required |-> requiredFields.at])

\* with one candidate the result is that candidate itself, not a copy
mergeTypesH(h, types) ==
    IF Len(types) = 0 THEN Alloc(h, [kind |-> "null"])
    ELSE IF Len(types) = 1 THEN [heap |-> h, at |-> types[1]]
    ELSE LET firstKind == KindOfH(h, types[1])
             allSameKind == \A i \in 1..Len(types) : KindOfH(h, types[i]) = firstKind
         IN  IF allSameKind
             THEN IF firstKind = "array" /\ HasItemsH(h, types[1])
                  THEN LET withItems == SelectSeq(types, LAMBDA t : HasItemsH(h, t))
                           itemTypes == [i \in 1..Len(withItems) |->
                                            h[withItems[i].ref].items]
                           mergedItems == mergeTypesH(h, itemTypes)
                       IN  Alloc(mergedItems.heap,
                                 [kind |-> "array", items |-> mergedItems.at])
                  ELSE IF firstKind = "object"
                  THEN mergeObjectTypeDefinitionsH(h, types)
                  ELSE [heap |-> h, at |-> types[1]]
             ELSE Alloc(h, [kind |-> "string"])

RECURSIVE InferAllH(_, _, _)
\* examples.map(ex => inferType(ex)), from example number i on; returns the
\* heap and the references of allTypes
InferAllH(h, examples, allTypes) ==
    IF Len(allTypes) = Len(examples) THEN [heap |-> h, allTypes |-> allTypes]
    ELSE LET r == inferTypeH(h, examples[Len(allTypes) + 1])
         IN  InferAllH(r.heap, examples, Append(allTypes, r.at))

\* the heap and the allTypes of inferTypeFromExamples when its merge starts
\* (for fewer than two examples there is none)
PerExampleTypes(h, examples) ==
    IF Len(examples) < 2 THEN [heap |-> h, allTypes |-> <<>>]
    ELSE InferAllH(h, examples, <<>>)

inferTypeFromExamplesH(h, examples) ==
    IF Len(examples) = 0 THEN Alloc(h, [kind |-> "null"])
    ELSE IF Len(examples) = 1 THEN inferTypeH(h, examples[1])
    ELSE LET all == InferAllH(h, examples, <<>>)
             allTypes == all.allTypes
             allAreObjects ==
                 \A i \in 1..Len(allTypes) : KindOfH(all.heap, allTypes[i]) = "object"
         IN  IF allAreObjects
             THEN mergeObjectTypeDefinitionsH(all.heap,
                      SelectSeq(allTypes, LAMBDA t : KindOfH(all.heap, t) = "object"))
             ELSE LET nonNull == SelectSeq(allTypes,
                                           LAMBDA t : KindOfH(all.heap, t) # "null")
                  IN  IF nonNull # <<>> THEN [heap |-> all.heap, at |-> nonNull[1]]
                      ELSE Alloc(all.heap, [kind |-> "null"])

RECURSIVE Deref(_, _)
\* the TypeDefinition tree that hangs on x in the heap h
Deref(h, x) ==
    IF ~IsRef(x) THEN x
    ELSE LET cell == h[x.ref]
         IN  [kind |-> cell.kind]
                 @@ (IF "items" \in DOMAIN cell
                     THEN [items |-> Deref(h, cell.items)] ELSE <<>>)
                 @@ (IF "properties" \in DOMAIN cell
                     THEN [properties |->
                              LET entries == h[cell.properties.ref].entries
                              IN  [i \in 1..Len(entries) |->
                                      [key |-> entries[i].key,
                                       value |-> Deref(h, entries[i].value)]]]
                     ELSE <<>>)
                 @@ (IF "required" \in DOMAIN cell
                     THEN [required |-> h[cell.required.ref].elems] ELSE <<>>)

(***************************************************************************)
(* The renderers followed by reference.  A schema object is a cell with    *)
(* type and, when set, items, properties and required.  The TypeScript,    *)
(* Zod and API-doc renderers assign to no property of an object they are   *)
(* given: they read the tree and build strings, and generateApiDoc pushes  *)
(* them onto its own lines array.  In convertTypeToJsonSchema required is  *)
(* typeDef.required itself when the node has one: the schema then holds    *)
(* the array of the node.                                                  *)
(***************************************************************************)
RECURSIVE convertTypeToJsonSchemaH(_, _)
RECURSIVE ConvertPropertiesH(_, _, _, _)

\* for (const [key, value] of Object.entries(typeDef.properties))
\*     properties[key] = convertTypeToJsonSchema(value)
\* from entry number i on; returns the heap
ConvertPropertiesH(h, entries, i, properties) ==
    IF i > Len(entries) THEN h
    ELSE LET r == convertTypeToJsonSchemaH(h, entries[i].value)
         IN  ConvertPropertiesH(MapSetH(r.heap, properties, entries[i].key, r.at),
                                entries, i + 1, properties)

\* convertTypeToJsonSchema putting the names it finds required onto the
\* required array of the node
convertTypeToJsonSchemaH_PushesRequired(h, typeDef) ==
    LET base == Alloc(h, EmptyMap)
        kind == KindOfH(h, typeDef)
    IN  IF kind \in {"string", "number", "boolean", "null"}
        THEN Alloc(base.heap, [type |-> kind])
        ELSE IF kind = "array"
        THEN LET items == IF HasItemsH(h, typeDef)
                          THEN convertTypeToJsonSchemaH(base.heap, h[typeDef.ref].items)
                          ELSE Alloc(base.heap, [type |-> "string"])
             IN  Alloc(items.heap, [type |-> "array", items |-> items.at])
        ELSE IF kind = "object"
        THEN LET node == h[typeDef.ref]
                 properties == Alloc(base.heap, EmptyMap)
                 required == IF "required" \in DOMAIN node
                             THEN [heap |-> PushH(properties.heap, node.required, "type"),
                                   at |-> node.required]
                             ELSE Alloc(properties.heap, [elems |-> <<>>])
                 converted == IF "properties" \in DOMAIN node
                              THEN ConvertPropertiesH(required.heap,
                                       h[node.properties.ref].entries, 1, properties.at)
                              ELSE required.heap
                 schema == Alloc(converted, [type |-> "object"])
                 withProperties ==
                     IF Len(schema.heap[properties.at.ref].entries) > 0
                     THEN [schema.heap EXCEPT ![schema.at.ref] =
                              @ @@ [properties |-> properties.at]]
                     ELSE schema.heap
                 withRequired ==
                     IF Len(withProperties[required.at.ref].elems) > 0
                     THEN [withProperties EXCEPT ![schema.at.ref] =
                              @ @@ [required |-> required.at]]
                     ELSE withProperties
             IN  [heap |-> withRequired, at |-> schema.at]
        ELSE Alloc(base.heap, [type |-> "string"])

convertTypeToJsonSchemaH(h, typeDef) ==
    LET base == Alloc(h, EmptyMap)
        kind == KindOfH(h, typeDef)
    IN  IF kind \in {"string", "number", "boolean", "null"}
        THEN Alloc(base.heap, [type |-> kind])
        ELSE IF kind = "array"
        THEN LET items == IF HasItemsH(h, typeDef)
                          THEN convertTypeToJsonSchemaH(base.heap, h[typeDef.ref].items)
                          ELSE Alloc(base.heap, [type |-> "string"])
             IN  Alloc(items.heap, [type |-> "array", items |-> items.at])
        ELSE IF kind = "object"
        THEN LET node == h[typeDef.ref]
                 properties == Alloc(base.heap, EmptyMap)
                 required == IF "required" \in DOMAIN node
                             THEN [heap |-> properties.heap, at |-> node.required]
                             ELSE Alloc(properties.heap, [elems |-> <<>>])
                 converted == IF "properties" \in DOMAIN node
                              THEN ConvertPropertiesH(required.heap,
                                       h[node.properties.ref].entries, 1, properties.at)
                              ELSE required.heap
                 schema == Alloc(converted, [type |-> "object"])
                 withProperties ==
                     IF Len(schema.heap[properties.at.ref].entries) > 0
                     THEN [schema.heap EXCEPT ![schema.at.ref] =
                              @ @@ [properties |-> properties.at]]
                     ELSE schema.heap
                 withRequired ==
                     IF Len(withProperties[required.at.ref].elems) > 0
                     THEN [withProperties EXCEPT ![schema.at.ref] =
                              @ @@ [required |-> required.at]]
                     ELSE withProperties
             IN  [heap |-> withRequired, at |-> schema.at]
        ELSE Alloc(base.heap, [type |-> "string"])

RECURSIVE SchemaValue(_, _)
\* the object JSON.stringify walks from the schema at x
SchemaValue(h, x) ==
    LET cell == h[x.ref]
    IN  [type |-> cell.type]
            @@ (IF "items" \in DOMAIN cell
                THEN [items |-> SchemaValue(h, cell.items)] ELSE <<>>)
            @@ (IF "properties" \in DOMAIN cell
                THEN [properties |->
                         LET entries == h[cell.properties.ref].entries
                         IN  [i \in 1..Len(entries) |->
                                 [key |-> entries[i].key,
                                  value |-> SchemaValue(h, entries[i].value)]]]
                ELSE <<>>)
            @@ (IF "required" \in DOMAIN cell
                THEN [required |-> h[cell.required.ref].elems] ELSE <<>>)

\* the spread copies the fields of the converted schema into a new object
generateJsonSchemaH(h, typeName, typeDef) ==
    LET converted == convertTypeToJsonSchemaH(h, typeDef)
        schema == Alloc(converted.heap, converted.heap[converted.at.ref])
    IN  [heap |-> schema.heap,
         text |-> ("$schema" :> "http://json-schema.org/draft-07/schema#")
                      @@ ("$id" :> <<"https://example.com/schemas/", typeName, ".json">>)
                      @@ [title |-> typeName,
                          description |-> <<"Auto-generated schema for ", typeName>>]
                      @@ SchemaValue(schema.heap, schema.at)]

generateTypeScriptH(h, typeName, typeDef) ==
    [heap |-> h, text |-> generateTypeScript(typeName, Deref(h, typeDef))]

generateZodH(h, typeName, typeDef) ==
    [heap |-> h, text |-> generateZod(typeName, Deref(h, typeDef))]

generateApiDocH(h, typeName, typeDef) ==
    LET text == generateApiDoc(typeName, Deref(h, typeDef))
        lines == Alloc(h, [elems |-> text])
    IN  [heap |-> lines.heap, text |-> text]

(***************************************************************************)
(* The inputs of the model.                                                *)
(***************************************************************************)
Prims == {JNull, JString, JNumber, JBoolean}

Keys == {"a", "b", "1", "constructor", "__proto__"}

ArraysOver(S, n) == {JArray(es) : es \in SeqsUpTo(S, n)}

ObjectsOver(K, S, n) ==
    {JObject(es) : es \in {e \in SeqsUpTo([key : K, value : S], n) :
                                CanonicalKeys(ObjectKeys(e))}}

Obj1(k, v) == JObject(<<[key |-> k, value |-> v]>>)

Level0 == Prims \cup {JArray(<<>>), JObject(<<>>)}

Level1 == ArraysOver(Level0, 2) \cup ObjectsOver({"a", "b"}, Level0, 2)

\* values nested three deep, for the calls with one value or the same value twice
DeepValues ==
    Level1 \cup ArraysOver(Level1, 1) \cup ObjectsOver(Keys, Level1, 1)
           \cup ObjectsOver({"a", "b", "1"},
                            {JBoolean, JArray(<<JString, JNumber>>),
                             Obj1("a", JString), Obj1("__proto__", JNumber)}, 2)

\* the values of the properties of the examples that are merged
PropValues ==
    {JNumber, JString, JNull, JArray(<<>>), JArray(<<JNumber>>),
     JArray(<<Obj1("a", JNumber)>>), JArray(<<Obj1("b", JString)>>),
     JObject(<<>>), Obj1("a", JNumber), Obj1("b", JString)}

Obj2(k1, v1, k2, v2) == JObject(<<[key |-> k1, value |-> v1], [key |-> k2, value |-> v2]>>)

\* examples with one property of every value, or with the keys of every name
WideExamples ==
    ObjectsOver({"a"}, PropValues, 1)
        \cup ObjectsOver(Keys, {JNumber}, 2)
        \cup {Obj1(k, JString) : k \in Keys}
        \cup {Obj2("a", JString, "b", JNumber), Obj2("b", JNull, "a", JNumber),
              Obj1("constructor", JArray(<<JNumber>>)),
              Obj1("a", JArray(<<Obj1("constructor", JNumber)>>)),
              Obj1("a", JArray(<<JArray(<<JNumber>>)>>)),
              Obj1("a", JArray(<<JArray(<<JString>>)>>))}

SmallExamples ==
    {JObject(<<>>), Obj1("a", JNumber), Obj1("a", JNull), Obj1("b", JNumber),
     Obj2("a", JNumber, "b", JNumber), Obj2("b", JNull, "a", JNull),
     Obj1("constructor", JNumber), Obj1("__proto__", JNumber),
     Obj1("a", Obj1("a", JNumber)), Obj1("a", Obj1("b", JNumber)),
     Obj1("a", JArray(<<Obj1("a", JNumber)>>)),
     Obj1("a", JArray(<<Obj1("b", JNumber)>>)),
     JNull, JNumber, JString, JArray(<<JNumber>>)}

\* examples with an object under a key that only some of them have
HolderExamples ==
    {Obj1("b", JNumber), Obj1("a", Obj1("b", JNumber)),
     Obj1("a", Obj2("a", JNumber, "b", JString)),
     Obj1("a", Obj1("constructor", JNumber)),
     Obj1("constructor", Obj1("a", JNumber))}

Inputs ==
    SeqsUpTo(SmallExamples, MaxExamples)
        \cup SeqsUpTo(WideExamples, MaxWideExamples)
        \cup SeqsUpTo(HolderExamples, MaxExamples)
        \cup {<<v>> : v \in DeepValues} \cup {<<v, v>> : v \in DeepValues}

\* the lists of examples handed to generateAll and to the command
FacadeExamples ==
    {Obj1("a", JNumber), Obj2("a", JNumber, "b", JString),
     Obj1("constructor", JNumber), Obj1("__proto__", JNumber),
     Obj1("a", Obj1("a", JNumber)), Obj1("a", Obj1("b", JNumber)),
     Obj1("a", JArray(<<Obj1("a", JNumber)>>)),
     JNull, JArray(<<JNumber>>)}

\* the example of the README: {"name": "John", "age": 30, "active": true}
SampleUser ==
    JObject(<<[key |-> "name", value |-> JString], [key |-> "age", value |-> JNumber],
              [key |-> "active", value |-> JBoolean]>>)

\* examples whose nested object has a name all of them give and a name
\* only one gives, and one whose nested object has a __proto__ key
NestedInputs ==
    {<<Obj1("a", Obj1("a", JNumber)), Obj1("a", Obj2("a", JNumber, "b", JString))>>,
     <<Obj1("a", JArray(<<Obj2("a", JNumber, "b", JString)>>)),
       Obj1("a", JArray(<<Obj1("a", JNumber)>>))>>,
     <<Obj1("a", Obj2("__proto__", JNumber, "b", JString))>>}

FacadeInputs ==
    SeqsUpTo(FacadeExamples, MaxFacadeExamples)
        \cup {<<v>> : v \in Level1 \cup {SampleUser}}
        \cup NestedInputs

TypeNames == {"Schema", "User"}

\* the --formats options of the model, as lists of comma-separated items
FormatOptions ==
    {<<"all">>, <<"zod ", " typescript">>, <<"json-schema", "api-doc">>,
     <<"api-doc", "zod", "api-doc">>, <<"typescript", "yaml">>, <<"all", "zod">>, <<"">>}

\* TypeDefinition nodes a caller of the renderers builds by hand: fields
\* may be missing, and required may name any properties in any order
ChildTypes ==
    {[kind |-> "string"], [kind |-> "array"],
     [kind |-> "array", items |-> [kind |-> "object", properties |-> <<>>, required |-> <<>>]],
     [kind |-> "string", description |-> "The name"],
     [kind |-> "object",
      properties |-> <<[key |-> "a", value |-> [kind |-> "number"]],
                       [key |-> "b", value |-> [kind |-> "boolean"]]>>,
      required |-> <<"b">>]}

HandBuiltKeys == {"a", "b", "__proto__"}

HandBuiltTypes ==
    ChildTypes
        \cup {[kind |-> "object", properties |-> ps] :
                 ps \in {e \in SeqsUpTo([key : HandBuiltKeys, value : ChildTypes], 2) :
                            IsInjective(ObjectKeys(e))}}
        \cup {[kind |-> "object", properties |-> ps, required |-> rs] :
                 ps \in {e \in SeqsUpTo([key : HandBuiltKeys, value : ChildTypes], 2) :
                            IsInjective(ObjectKeys(e))},
                 rs \in SeqsUpTo(HandBuiltKeys, 2)}
        \cup {[kind |-> "object"], [kind |-> "object", required |-> <<"a">>]}

(***************************************************************************)
(* The state: what the caller holds, the entry point it called, and what   *)
(* the call made and returned.                                             *)
(***************************************************************************)
VARIABLES
    examples,   \* the list of parsed JSON examples the caller holds
    op,         \* the entry point called, "none" before the call
    arg,        \* inferType: the number of the example passed as value
    typeDef,    \* the TypeDefinition inferred, or the one the caller built
    request,    \* the arguments of generateAll or of the command
    calls,      \* the calls the handler made, in order
    outputs,    \* the generated text by output name
    proc,       \* the outcome of the command: exit code, files, output
    heap,       \* the objects in memory, where the calls are followed by reference
    frame,      \* createSpinner: let frame
    interval,   \* createSpinner: let interval, {} for null, else the one handle
    currentMessage, \* createSpinner: let currentMessage
    timers,     \* the interval timers of the event loop that are active
    created,    \* the number of interval timers setInterval has created
    stdout      \* the spinner frames written, and the last text written

spinnerVars == <<frame, interval, currentMessage, timers, created, stdout>>

vars == <<examples, op, arg, typeDef, request, calls, outputs, proc, heap, spinnerVars>>

\* no spinner was created
NoSpinner ==
    /\ frame = 0
    /\ interval = {}
    /\ currentMessage = ""
    /\ timers = {}
    /\ created = 0
    /\ stdout = [frames |-> 0, last |-> <<>>]

NoProc == [exit |-> -1]

Init ==
    /\ examples \in Inputs
    /\ op = "none"
    /\ arg = 0
    /\ typeDef = Undefined
    /\ request = <<>>
    /\ calls = <<>>
    /\ outputs = <<>>
    /\ proc = NoProc
    /\ heap = <<>>
    /\ NoSpinner

\* inferType(value) on one of the examples
InferTypeCall ==
    /\ op = "none"
    /\ typeDef = Undefined
    /\ \E i \in 1..Len(examples) :
          /\ arg' = i
          /\ typeDef' = inferType(examples[i])
    /\ op' = "inferType"
    /\ UNCHANGED <<examples, request, calls, outputs, proc, heap, spinnerVars>>

\* inferTypeFromExamples(examples)
InferTypeFromExamplesCall ==
    /\ op = "none"
    /\ typeDef = Undefined
    /\ typeDef' = inferTypeFromExamples(examples)
    /\ op' = "inferTypeFromExamples"
    /\ UNCHANGED <<examples, arg, request, calls, outputs, proc, heap, spinnerVars>>

Next == InferTypeCall \/ InferTypeFromExamplesCall

Spec == Init /\ [][Next]_vars

\* a call that was made runs to its return: the functions are synchronous
SpecReturns == Init /\ [][Next]_vars /\ WF_vars(Next)

(***************************************************************************)
(* The facade, the command and the renderers.  The caller holds a list of  *)
(* examples, or a TypeDefinition it built and renders itself.              *)
(***************************************************************************)
InitFacade ==
    /\ \/ examples \in FacadeInputs /\ typeDef = Undefined /\ request = <<>>
       \/ /\ examples = <<>>
          /\ typeDef \in HandBuiltTypes
          /\ request \in [typeName : TypeNames]
    /\ op = "none"
    /\ arg = 0
    /\ calls = <<>>
    /\ outputs = <<>>
    /\ proc = NoProc
    /\ heap = <<>>
    /\ NoSpinner

\* generateAll(json, typeName), with one example or with the whole list as json
GenerateAllCall ==
    /\ op = "none"
    /\ typeDef = Undefined
    /\ \E json \in {JArray(examples)} \cup Range(examples), typeName \in TypeNames :
          LET run == generateAll(json, typeName)
          IN  /\ request' = [json |-> json, typeName |-> typeName]
              /\ typeDef' = run.typeDef
              /\ calls' = run.calls
              /\ outputs' = run.outputs
    /\ op' = "generateAll"
    /\ UNCHANGED <<examples, arg, proc, heap, spinnerVars>>

\* schema-gen <json...> [--formats f] [--prefix p] [--no-write]; commander
\* requires at least one <json> argument
CliRun ==
    /\ op = "none"
    /\ typeDef = Undefined
    /\ Len(examples) >= 1
    /\ \E bad \in {{}} \cup {{i} : i \in 1..Len(examples)},
          formats \in FormatOptions, prefix \in TypeNames,
          output \in [write : BOOLEAN, dirExists : BOOLEAN] :
          LET jsonStrings == [i \in 1..Len(examples) |->
                                 IF i \in bad THEN Malformed ELSE [json |-> examples[i]]]
              options == [formats |-> formats, write |-> output.write, prefix |-> prefix,
                          dirExists |-> output.dirExists]
              run == cliAction(jsonStrings, options)
          IN  /\ request' = [jsonStrings |-> jsonStrings, options |-> options]
              /\ typeDef' = run.typeDef
              /\ calls' = run.calls
              /\ outputs' = run.outputs
              /\ proc' = [exit |-> run.exit, mkdir |-> run.mkdir, writes |-> run.writes,
                          stdout |-> run.stdout, stderr |-> run.stderr]
    /\ op' = "cli"
    /\ UNCHANGED <<examples, arg, heap, spinnerVars>>

\* a caller renders the TypeDefinition it holds, under the type name it
\* chose, with one of the renderers
CanRender(fn) ==
    /\ op \in {"none", "render"}
    /\ typeDef # Undefined
    /\ fn \notin DOMAIN outputs

Rendered(fn, text) ==
    /\ outputs' = outputs @@ (fn :> text)
    /\ op' = "render"
    /\ UNCHANGED <<examples, arg, typeDef, request, calls, proc, heap, spinnerVars>>

GenerateJsonSchemaCall ==
    /\ CanRender("generateJsonSchema")
    /\ Rendered("generateJsonSchema", generateJsonSchema(request.typeName, typeDef))

GenerateTypeScriptCall ==
    /\ CanRender("generateTypeScript")
    /\ Rendered("generateTypeScript", generateTypeScript(request.typeName, typeDef))

GenerateZodCall ==
    /\ CanRender("generateZod")
    /\ Rendered("generateZod", generateZod(request.typeName, typeDef))

GenerateApiDocCall ==
    /\ CanRender("generateApiDoc")
    /\ Rendered("generateApiDoc", generateApiDoc(request.typeName, typeDef))

NextFacade ==
    \/ GenerateAllCall
    \/ CliRun
    \/ GenerateJsonSchemaCall
    \/ GenerateTypeScriptCall
    \/ GenerateZodCall
    \/ GenerateApiDocCall

SpecFacade == InitFacade /\ [][NextFacade]_vars

(***************************************************************************)
(* A caller that keeps what the functions return: it infers from its       *)
(* examples, one or all of them, and renders any node it was returned, in  *)
(* any order.  Every call is logged with the heap it started from.         *)
(***************************************************************************)
MaxHeapCalls == 4

InferenceFns == {"inferType", "inferTypeFromExamples"}

\* example lists where the merge hands on nodes it was given (a property or
\* an example with one candidate), merges nested arrays and objects, meets a
\* key named __proto__, and where the same value is inferred twice
HeapInputs ==
    {<<>>,
     <<Obj2("a", JNumber, "b", JString)>>,
     <<JNull, Obj1("b", JNumber)>>,
     <<Obj1("b", JNumber), Obj2("a", JNumber, "b", JString)>>,
     <<Obj1("a", JArray(<<Obj1("a", JNumber)>>)), Obj1("a", JArray(<<Obj1("a", JNumber)>>))>>,
     <<Obj1("__proto__", JNumber), Obj1("b", JNumber)>>,
     <<Obj2("b", JString, "a", JNumber), Obj2("b", JString, "a", JNumber)>>}

InitHeap ==
    /\ examples \in HeapInputs
    /\ op = "none"
    /\ arg = 0
    /\ typeDef = Undefined
    /\ request = <<>>
    /\ calls = <<>>
    /\ outputs = <<>>
    /\ proc = NoProc
    /\ heap = <<>>
    /\ NoSpinner

\* the caller makes MaxHeapCalls calls at most
CanCall == Len(calls) < MaxHeapCalls

\* the call returned: its log entry, and the heap it left
Returned(entry, h) ==
    /\ calls' = Append(calls, entry @@ [before |-> heap])
    /\ heap' = h
    /\ UNCHANGED <<examples, op, arg, typeDef, request, outputs, proc, spinnerVars>>

\* const t = inferType(examples[i])
InferTypeByReference ==
    /\ CanCall
    /\ \E i \in 1..Len(examples) :
          LET r == inferTypeH(heap, examples[i])
          IN  Returned([fn |-> "inferType", arg |-> <<examples[i]>>, at |-> r.at,
                        tree |-> Deref(r.heap, r.at), merging |-> heap],
                       r.heap)

\* const t = inferTypeFromExamples(examples)
InferTypeFromExamplesByReference ==
    /\ CanCall
    /\ LET r == inferTypeFromExamplesH(heap, examples)
       IN  Returned([fn |-> "inferTypeFromExamples", arg |-> examples, at |-> r.at,
                     tree |-> Deref(r.heap, r.at),
                     merging |-> PerExampleTypes(heap, examples).heap],
                    r.heap)

\* the nodes the caller holds
Held == {calls[j].at : j \in {k \in 1..Len(calls) : calls[k].fn \in InferenceFns}}

GenerateJsonSchemaByReference ==
    /\ CanCall
    /\ \E t \in Held :
          LET r == generateJsonSchemaH(heap, "Schema", t)
          IN  Returned([fn |-> "generateJsonSchema", of |-> t, text |-> r.text], r.heap)

GenerateTypeScriptByReference ==
    /\ CanCall
    /\ \E t \in Held :
          LET r == generateTypeScriptH(heap, "Schema", t)
          IN  Returned([fn |-> "generateTypeScript", of |-> t, text |-> r.text], r.heap)

GenerateZodByReference ==
    /\ CanCall
    /\ \E t \in Held :
          LET r == generateZodH(heap, "Schema", t)
          IN  Returned([fn |-> "generateZod", of |-> t, text |-> r.text], r.heap)

GenerateApiDocByReference ==
    /\ CanCall
    /\ \E t \in Held :
          LET r == generateApiDocH(heap, "Schema", t)
          IN  Returned([fn |-> "generateApiDoc", of |-> t, text |-> r.text], r.heap)

NextHeap ==
    \/ InferTypeByReference
    \/ InferTypeFromExamplesByReference
    \/ GenerateJsonSchemaByReference
    \/ GenerateTypeScriptByReference
    \/ GenerateZodByReference
    \/ GenerateApiDocByReference

SpecHeap == InitHeap /\ [][NextHeap]_vars


(***************************************************************************)
(* Vocabulary of the claims.                                               *)
(***************************************************************************)
\* the own keys of a JSON object, and the value under one of them
ExampleKeys(v) == {v.entries[i].key : i \in 1..Len(v.entries)}
ExampleValue(v, k) == v.entries[CHOOSE i \in 1..Len(v.entries) : v.entries[i].key = k].value

\* the keys of the properties map of an object node, and the node under one
PropKeys(t) == {t.properties[i].key : i \in 1..Len(t.properties)}
PropType(t, k) == OwnValue(t.properties, k)

AllObjects == \A i \in 1..Len(examples) : examples[i].t = "object"

\* a merge of two or more object examples has returned
MergedObjects == op = "inferTypeFromExamples" /\ Len(examples) >= 2 /\ AllObjects

RECURSIVE Nodes(_)
\* every node of a TypeDefinition tree, at every depth
Nodes(t) ==
    {t} \cup (IF "items" \in DOMAIN t THEN Nodes(t.items) ELSE {})
        \cup (IF "properties" \in DOMAIN t
              THEN UNION {Nodes(t.properties[i].value) : i \in 1..Len(t.properties)}
              ELSE {})

(***************************************************************************)
(* C1: merging N >= 2 object examples gives an object node whose           *)
(* properties are keyed by exactly the union of the examples' keys and     *)
(* whose required list holds a name iff every example has that key.        *)
(***************************************************************************)
C1_RequiredIffInEveryExample ==
    MergedObjects =>
        /\ typeDef.kind = "object"
        /\ PropKeys(typeDef) = UNION {ExampleKeys(examples[i]) : i \in 1..Len(examples)}
        /\ \A k \in Keys :
              k \in Range(typeDef.required)
                  <=> \A i \in 1..Len(examples) : k \in ExampleKeys(examples[i])

(***************************************************************************)
(* C2: in every object node of a returned tree, at every depth, required   *)
(* is a subset of the keys of properties and holds no name twice.          *)
(***************************************************************************)
C2_RequiredWithinProperties ==
    op # "none" =>
        \A n \in Nodes(typeDef) :
            n.kind = "object" =>
                /\ Range(n.required) \subseteq PropKeys(n)
                /\ IsInjective(n.required)

(***************************************************************************)
(* C3: inferTypeFromExamples([v, v]) is structurally equal to              *)
(* inferType(v), for every JSON value v.                                   *)
(***************************************************************************)
C3_SameValueTwice ==
    (op = "inferTypeFromExamples" /\ Len(examples) = 2 /\ examples[1] = examples[2])
        => typeDef = inferType(examples[1])

(***************************************************************************)
(* C4: a property of the merged object whose values are of two or more     *)
(* different kinds among the examples that contain it has the type         *)
(* {kind: string} and nothing else, be it required or optional.            *)
(***************************************************************************)
ValueKinds(k) ==
    {ExampleValue(examples[i], k).t :
        i \in {j \in 1..Len(examples) : k \in ExampleKeys(examples[j])}}

KindConflict(k) == Cardinality(ValueKinds(k)) >= 2

GivenTheList == op = "generateAll" /\ request.json = JArray(examples)

C5_GenerateAllInfersFromExamples ==
    GivenTheList =>
        /\ Len(examples) = 1 => typeDef = inferType(examples[1])
        /\ Len(examples) >= 2 => typeDef = inferTypeFromExamples(examples)

\* every property of every object node of t is required
NothingOptional(t) ==
    \A n \in Nodes(t) : n.kind = "object" => PropKeys(n) \subseteq Range(n.required)

\* the run built its four outputs from the type t under the name typeName
OutputsRender(t, typeName, json, ts, zod, doc) ==
    /\ outputs[json] = generateJsonSchema(typeName, t)
    /\ outputs[ts] = generateTypeScript(typeName, t)
    /\ outputs[zod] = ZodImport \o generateZod(typeName, t)
    /\ outputs[doc] = generateApiDoc(typeName, t)

\* the command ran to its end: its arguments parsed and its formats were valid
CliCompleted == op = "cli" /\ proc.exit = 0

(***************************************************************************)
(* C5, amended: generateAll takes one JSON value and renders the           *)
(* single-value inference of it; a list of examples given as the value is  *)
(* inferred as one array, {kind: array, items: inferType(first example)},  *)
(* and no property of the result is optional.  The command is what infers  *)
(* with inferType for one example and inferTypeFromExamples for more.      *)
(***************************************************************************)
C5_GenerateAllInfersOneValue ==
    /\ op = "generateAll" =>
          /\ typeDef = inferType(request.json)
          /\ NothingOptional(typeDef)
          /\ OutputsRender(typeDef, request.typeName,
                           "jsonSchema", "typescript", "zod", "apiDoc")
    /\ GivenTheList =>
          typeDef = [kind |-> "array",
                     items |-> IF examples = <<>> THEN [kind |-> "string"]
                               ELSE inferType(examples[1])]
    /\ CliCompleted =>
          /\ typeDef = IF Len(examples) > 1 THEN inferTypeFromExamples(examples)
                       ELSE inferType(examples[1])
          /\ OutputsRender(typeDef, request.options.prefix,
                           "json-schema", "typescript", "zod", "api-doc")

\* generateAll was given a list of two object examples with different keys
C5_Witness ==
    /\ GivenTheList
    /\ Len(examples) = 2
    /\ AllObjects
    /\ ExampleKeys(examples[1]) # ExampleKeys(examples[2])
    /\ ExampleKeys(examples[2]) # {}
    /\ typeDef.kind = "array"
    /\ "typescript" \in DOMAIN outputs

(***************************************************************************)
(* C6: one generateAll call, and one run of the command, infers the type   *)
(* exactly once and hands that node to each of the four renderers, whose   *)
(* outputs are the renderings of it; the result of generateAll has exactly *)
(* the four entries jsonSchema, typescript, zod and apiDoc.                *)
(***************************************************************************)
RendererFns == {"generateJsonSchema", "generateTypeScript", "generateZod", "generateApiDoc"}

CallsOf(fns) == {i \in 1..Len(calls) : calls[i].fn \in fns}

C6_OneTypeForAllRenderers ==
    (op = "generateAll" \/ CliCompleted) =>
        /\ Cardinality(CallsOf(InferenceFns)) = 1
        /\ \A i \in CallsOf(InferenceFns) : calls[i].typeDef = typeDef
        /\ \A fn \in RendererFns : Cardinality(CallsOf({fn})) = 1
        /\ \A i \in CallsOf(RendererFns) : calls[i].typeDef = typeDef
        /\ op = "generateAll" =>
              /\ DOMAIN outputs = {"jsonSchema", "typescript", "zod", "apiDoc"}
              /\ OutputsRender(typeDef, request.typeName,
                               "jsonSchema", "typescript", "zod", "apiDoc")
        /\ op = "cli" =>
              OutputsRender(typeDef, request.options.prefix,
                            "json-schema", "typescript", "zod", "api-doc")

\* generateAll has rendered an object type with a nested object
C6_Witness ==
    /\ op = "generateAll"
    /\ typeDef.kind = "object"
    /\ \E k \in PropKeys(typeDef) : PropType(typeDef, k).kind = "object"
    /\ Len(calls) = 5

(***************************************************************************)
(* C7: for an object node with at least one property and required within   *)
(* the keys of properties, the four renderers classify every top-level     *)
(* property alike: it is in the JSON Schema required array iff its         *)
(* TypeScript field has no ? iff its Zod field has no .optional() iff its  *)
(* documentation row says Yes.                                             *)
(***************************************************************************)
\* the output of one renderer, under the name the entry point gives it
OutputNamed(names) == outputs[CHOOSE k \in DOMAIN outputs : k \in names]
HasOutput(names) == \E k \in DOMAIN outputs : k \in names

JsonNames == {"jsonSchema", "json-schema", "generateJsonSchema"}
TypeScriptNames == {"typescript", "generateTypeScript"}
ZodNames == {"zod", "generateZod"}
ApiDocNames == {"apiDoc", "api-doc", "generateApiDoc"}

AllFourRendered ==
    /\ typeDef # Undefined
    /\ HasOutput(JsonNames) /\ HasOutput(TypeScriptNames)
    /\ HasOutput(ZodNames) /\ HasOutput(ApiDocNames)

\* reading the classification of property p back from each output
JsonRequires(p) ==
    LET schema == OutputNamed(JsonNames)
    IN  "required" \in DOMAIN schema /\ p \in Range(schema.required)

\* the top-level field lines of p in the interface: two blanks, the name
TypeScriptFieldLines(p) ==
    LET lines == Split(OutputNamed(TypeScriptNames), "\n")
    IN  {lines[i] : i \in {j \in 1..Len(lines) :
             Len(lines[j]) >= 3 /\ lines[j][1] = "  " /\ lines[j][2] = p}}

TypeScriptRequires(p) == \E line \in TypeScriptFieldLines(p) : line[3] = ": "
TypeScriptOptional(p) == \E line \in TypeScriptFieldLines(p) : line[3] = "?"

\* the last line of the top-level field of p in the Zod object: the field
\* starts at four blanks and the name, and runs over the lines that follow
\* and are indented deeper
ZodFieldEnds(p) ==
    LET lines == Split(OutputNamed(ZodNames), "\n")
        Starts(i) == Len(lines[i]) >= 3 /\ lines[i][1] = "    "
                         /\ lines[i][2] = p /\ lines[i][3] = ": "
        Deeper(i) == Len(lines[i]) >= 2 /\ lines[i][1] = "    " /\ lines[i][2] = "  "
    IN  {lines[j] : j \in {k \in 1..Len(lines) :
             \E i \in 1..k :
                 /\ Starts(i)
                 /\ \A m \in (i + 1)..k : Deeper(m)
                 /\ (k = Len(lines) \/ ~Deeper(k + 1))}}

ZodOptional(p) ==
    \E line \in ZodFieldEnds(p) :
        Len(line) >= 2 /\ line[Len(line)] = "," /\ line[Len(line) - 1] = ".optional()"
ZodRequires(p) ==
    \E line \in ZodFieldEnds(p) :
        Len(line) >= 2 /\ line[Len(line)] = "," /\ line[Len(line) - 1] # ".optional()"

\* the table rows of p in the documentation
ApiDocRowsOf(p) ==
    LET lines == Split(OutputNamed(ApiDocNames), "\n")
    IN  {lines[i] : i \in {j \in 1..Len(lines) :
             Len(lines[j]) >= 6 /\ lines[j][1] = "| " /\ lines[j][2] = p}}

ApiDocSaysYes(p) == \E row \in ApiDocRowsOf(p) : row[Len(row) - 3] = "Yes"
ApiDocSaysNo(p) == \E row \in ApiDocRowsOf(p) : row[Len(row) - 3] = "No"

RenderableObject ==
    /\ typeDef.kind = "object"
    /\ ~NoProperties(typeDef)
    /\ RequiredSet(typeDef) \subseteq PropKeys(typeDef)

C7_RenderersAgreeOnRequired ==
    (AllFourRendered /\ RenderableObject) =>
        \A p \in PropKeys(typeDef) :
            /\ JsonRequires(p) <=> TypeScriptRequires(p)
            /\ TypeScriptRequires(p) <=> ~TypeScriptOptional(p)
            /\ JsonRequires(p) <=> ZodRequires(p)
            /\ ZodRequires(p) <=> ~ZodOptional(p)
            /\ JsonRequires(p) <=> ApiDocSaysYes(p)
            /\ ApiDocSaysYes(p) <=> ~ApiDocSaysNo(p)

\* a merged type with a required and an optional property, the optional
\* one an object rendered over several lines, went through all four
C7_Witness ==
    /\ AllFourRendered
    /\ RenderableObject
    /\ \E p, q \in PropKeys(typeDef) :
          /\ JsonRequires(p) /\ ApiDocSaysYes(p)
          /\ ~JsonRequires(q) /\ ZodOptional(q) /\ TypeScriptOptional(q)
          /\ PropType(typeDef, q).kind = "object"
          /\ ~NoProperties(PropType(typeDef, q))

(***************************************************************************)
(* C8: inferType of a JSON object returns an object node whose properties  *)
(* are the object's own keys in key order, each mapped to inferType of its *)
(* value, and whose required list is all those keys in the same order.     *)
(***************************************************************************)
C8_ObjectKeysAllRequired ==
    (op = "inferType" /\ examples[arg].t = "object") =>
        LET value == examples[arg]
            keys == ObjectKeys(value.entries)
        IN  /\ typeDef.kind = "object"
            /\ ObjectKeys(typeDef.properties) = keys
            /\ typeDef.required = keys
            /\ \A i \in 1..Len(keys) :
                  /\ HasOwn(typeDef.properties, keys[i])
                  /\ PropType(typeDef, keys[i]) = inferType(value.entries[i].value)

(***************************************************************************)
(* C9: inferType of the empty array is {kind: array, items: {kind:         *)
(* string}}; of a non-empty array it is {kind: array, items: inferType of  *)
(* the first element}, whatever the other elements are.                    *)
(***************************************************************************)
\* the arrays that begin as v does: elements after the first replaced,
\* added or removed
SameFirstElement(v) ==
    {JArray(<<v.elems[1]>> \o rest) : rest \in SeqsUpTo(Level0, 2)}

C9_ArrayItemsFromFirstElement ==
    (op = "inferType" /\ examples[arg].t = "array") =>
        LET value == examples[arg]
        IN  IF Len(value.elems) = 0
            THEN typeDef = [kind |-> "array", items |-> [kind |-> "string"]]
            ELSE /\ typeDef = [kind |-> "array", items |-> inferType(value.elems[1])]
                 /\ \A w \in SameFirstElement(value) : inferType(w) = typeDef

\* an array whose second element is of another kind than its first
C9_Witness ==
    /\ op = "inferType"
    /\ examples[arg].t = "array"
    /\ Len(examples[arg].elems) = 2
    /\ examples[arg].elems[1].t = "object"
    /\ examples[arg].elems[2].t = "number"
    /\ typeDef.items.kind = "object"

(***************************************************************************)
(* C10: inferTypeFromExamples of the empty list is {kind: null}, and of a  *)
(* one-element list [v] it is inferType(v).                                *)
(***************************************************************************)
C10_ZeroAndOneExample ==
    op = "inferTypeFromExamples" =>
        /\ Len(examples) = 0 => typeDef = [kind |-> "null"]
        /\ Len(examples) = 1 => typeDef = inferType(examples[1])

\* one example, an object with a property, has been inferred
C10_Witness ==
    /\ op = "inferTypeFromExamples"
    /\ Len(examples) = 1
    /\ examples[1].t = "object"
    /\ typeDef.kind = "object"
    /\ typeDef.required # <<>>

(***************************************************************************)
(* C11: for N >= 2 examples that are not all objects, the result is        *)
(* inferType of the first example, in input order, that is not null, and   *)
(* {kind: null} when every example is null; nothing is merged.             *)
(***************************************************************************)
NotAllObjects == op = "inferTypeFromExamples" /\ Len(examples) >= 2 /\ ~AllObjects

NonNullExamples == {i \in 1..Len(examples) : examples[i] # JNull}

C11_FirstNonNullExample ==
    NotAllObjects =>
        IF NonNullExamples = {}
        THEN typeDef = [kind |-> "null"]
        ELSE LET first == CHOOSE i \in NonNullExamples : \A j \in NonNullExamples : i <= j
             IN  typeDef = inferType(examples[first])

\* null, then an array, then an object with another key: the array wins
C11_Witness ==
    /\ NotAllObjects
    /\ Len(examples) = 3
    /\ examples[1] = JNull
    /\ examples[2].t = "array"
    /\ examples[3].t = "object"
    /\ typeDef = [kind |-> "array", items |-> [kind |-> "number"]]

(***************************************************************************)
(* C12: the JSON Schema renderer gives every node the type named as its    *)
(* kind, renders the schema of every property of an object, recursively,   *)
(* and emits the properties key exactly when the node has a property and   *)
(* the required key exactly when the required list is not empty; the       *)
(* schema of inferType({name: "John", age: 30, active: true}) has required *)
(* [name, age, active] and the property types string, number, boolean.     *)
(***************************************************************************)
PropertiesOf(t) == IF "properties" \in DOMAIN t THEN t.properties ELSE <<>>
RequiredOf(t) == IF "required" \in DOMAIN t THEN t.required ELSE <<>>

RECURSIVE SchemaRenders(_, _)
\* the schema s is the rendering of the node t that the claim describes
SchemaRenders(t, s) ==
    /\ s.type = t.kind
    /\ t.kind = "array" =>
          /\ "items" \in DOMAIN s
          /\ HasItems(t) => SchemaRenders(t.items, s.items)
    /\ t.kind = "object" =>
          /\ "properties" \in DOMAIN s <=> PropertiesOf(t) # <<>>
          /\ "required" \in DOMAIN s <=> RequiredOf(t) # <<>>
          /\ "required" \in DOMAIN s => s.required = RequiredOf(t)
          /\ \A i \in 1..Len(PropertiesOf(t)) :
                LET p == PropertiesOf(t)[i]
                IN  /\ HasOwn(s.properties, p.key)
                    /\ SchemaRenders(p.value, OwnValue(s.properties, p.key))
          /\ "properties" \in DOMAIN s =>
                Len(s.properties) = Len(PropertiesOf(t))

JsonSchemaRendered == typeDef # Undefined /\ HasOutput(JsonNames)

C12_JsonSchemaRendersNode ==
    JsonSchemaRendered =>
        LET schema == OutputNamed(JsonNames)
        IN  /\ SchemaRenders(typeDef, schema)
            /\ typeDef = inferType(SampleUser) =>
                  /\ schema.required = <<"name", "age", "active">>
                  /\ ObjectKeys(schema.properties) = <<"name", "age", "active">>
                  /\ OwnValue(schema.properties, "name") = [type |-> "string"]
                  /\ OwnValue(schema.properties, "age") = [type |-> "number"]
                  /\ OwnValue(schema.properties, "active") = [type |-> "boolean"]

(***************************************************************************)
(* C13: every node, at every depth, of a tree that inferType or            *)
(* inferTypeFromExamples returns has the fields of its kind: an object     *)
(* node has properties and required and no items, an array node has items  *)
(* and no properties or required, a string, number, boolean or null node   *)
(* has no field but kind.                                                  *)
(***************************************************************************)
Inferred == op \in {"inferType", "inferTypeFromExamples"}

ShapeMatchesKind(n) ==
    /\ KindOf(n) \in TypeKind
    /\ KindOf(n) = "object" => DOMAIN n = {"kind", "properties", "required"}
    /\ KindOf(n) = "array" => DOMAIN n = {"kind", "items"}
    /\ KindOf(n) \in {"string", "number", "boolean", "null"} => DOMAIN n = {"kind"}

C13_NodeShapeMatchesKind ==
    Inferred => \A n \in Nodes(typeDef) : ShapeMatchesKind(n)

\* a merge has returned an object with an array property whose items are
\* the merge of two objects
C13_Witness ==
    /\ MergedObjects
    /\ \E k \in PropKeys(typeDef) :
          /\ PropType(typeDef, k).kind = "array"
          /\ PropType(typeDef, k).items.kind = "object"
          /\ Len(PropType(typeDef, k).items.properties) = 2
          /\ PropType(typeDef, k).items.required = <<>>

(***************************************************************************)
(* C14                                                                     *)
(***************************************************************************)
\* the renderer fn applied to the node at t in the heap h
RenderH(fn, h, t) ==
    IF fn = "generateJsonSchema" THEN generateJsonSchemaH(h, "Schema", t)
    ELSE IF fn = "generateTypeScript" THEN generateTypeScriptH(h, "Schema", t)
    ELSE IF fn = "generateZod" THEN generateZodH(h, "Schema", t)
    ELSE generateApiDocH(h, "Schema", t)

\* every object that was in the heap h is in the heap now as it was
Untouched(h) == \A a \in 1..Len(h) : heap[a] = h[a]

\* C14: no operation changes a Type Node it receives.  Whatever was in
\* memory when a call started is the same ever after; the per-example nodes
\* of inferTypeFromExamples (with their properties maps, required arrays and
\* items) are after the merge, and after every later call, as inferType
\* built them; a node that was returned stays the tree it was; and a node
\* that was rendered renders to the same text again after any calls.
C14_NoOperationChangesItsInput ==
    \A j \in 1..Len(calls) :
        /\ Untouched(calls[j].before)
        /\ calls[j].fn \in InferenceFns =>
              /\ Untouched(calls[j].merging)
              /\ Deref(heap, calls[j].at) = calls[j].tree
        /\ calls[j].fn \in RendererFns =>
              RenderH(calls[j].fn, heap, calls[j].of).text = calls[j].text

\* a merge over per-example nodes handed one of them on in its result, the
\* result was rendered as a JSON Schema, which holds the required array of
\* the node, and was rendered again after that
C14_Witness ==
    \E i, j, k \in 1..Len(calls) :
        /\ i < j /\ j < k
        /\ calls[i].fn = "inferTypeFromExamples"
        /\ Len(calls[i].merging) > Len(calls[i].before)
        /\ heap[calls[i].at.ref].kind = "object"
        /\ calls[i].at.ref > Len(calls[i].merging)
        /\ \E n \in 1..Len(heap[heap[calls[i].at.ref].properties.ref].entries) :
              LET v == heap[heap[calls[i].at.ref].properties.ref].entries[n].value
              IN  IsRef(v) /\ v.ref <= Len(calls[i].merging)
        /\ calls[j].fn = "generateJsonSchema"
        /\ calls[j].of = calls[i].at
        /\ "required" \in DOMAIN calls[j].text
        /\ calls[k].fn \in RendererFns
        /\ calls[k].of = calls[i].at

(***************************************************************************)
(* C15: inferType and inferTypeFromExamples return, without raising, for   *)
(* every JSON value: every call returns, no step of the merge reads a      *)
(* field of undefined, and the result is a finite tree, no deeper than the *)
(* input allows, whose every node has one of the six kinds.                *)
(***************************************************************************)
Max(S) == CHOOSE x \in S : \A y \in S : y <= x

RECURSIVE ValueDepth(_)
ValueDepth(v) ==
    IF v.t = "array"
    THEN 1 + Max({0} \cup {ValueDepth(v.elems[i]) : i \in 1..Len(v.elems)})
    ELSE IF v.t = "object"
    THEN 1 + Max({0} \cup {ValueDepth(v.entries[i].value) : i \in 1..Len(v.entries)})
    ELSE 0

RECURSIVE TypeDepth(_)
TypeDepth(t) ==
    1 + Max({0} \cup (IF "items" \in DOMAIN t THEN {TypeDepth(t.items)} ELSE {})
                \cup {TypeDepth(PropertiesOf(t)[i].value) : i \in 1..Len(PropertiesOf(t))})

\* reading .kind of undefined, or a property of t.properties when t has
\* none, raises a TypeError
MergeRaises(types) ==
    \E args \in MergeTypesCalls(types) :
        \/ \E i \in 1..Len(args) : args[i] = Undefined
        \/ /\ Len(args) >= 2
           /\ \A i \in 1..Len(args) : KindOf(args[i]) = "object"
           /\ \E i \in 1..Len(args) : "properties" \notin DOMAIN args[i]

ReturnsTree ==
    /\ Inferred =>
          /\ \A n \in Nodes(typeDef) : KindOf(n) \in TypeKind
          /\ TypeDepth(typeDef)
                 <= 1 + Max({0} \cup {ValueDepth(examples[i]) : i \in 1..Len(examples)})
    /\ (op = "inferTypeFromExamples" /\ Len(examples) >= 2) =>
          ~MergeRaises([i \in 1..Len(examples) |-> inferType(examples[i])])

C15_InferenceIsTotal == []ReturnsTree /\ <>Inferred

\* three objects whose property is nested two deep have been merged
C15_Witness ==
    /\ MergedObjects
    /\ Len(examples) = 3
    /\ \A i \in 1..3 : ValueDepth(examples[i]) = 3
    /\ TypeDepth(typeDef) = 4

(***************************************************************************)
(* C16                                                                     *)
(***************************************************************************)
\* C16: inferType and inferTypeFromExamples are deterministic: two calls of
\* the same function on the same values in the same order return the same
\* tree, the order of the properties and of the required names included,
\* whatever was called in between.
C16_InferenceIsDeterministic ==
    \A i, j \in 1..Len(calls) :
        (/\ calls[i].fn \in InferenceFns
         /\ calls[j].fn = calls[i].fn
         /\ calls[j].arg = calls[i].arg)
            => calls[j].tree = calls[i].tree

\* the same inference ran twice, with another call in between, on examples
\* whose tree has two properties and two required names
C16_Witness ==
    \E i, j \in 1..Len(calls) :
        /\ i + 1 < j
        /\ calls[i].fn \in InferenceFns
        /\ calls[j].fn = calls[i].fn
        /\ calls[j].arg = calls[i].arg
        /\ calls[j].at # calls[i].at
        /\ calls[i].tree.kind = "object"
        /\ Len(calls[i].tree.properties) = 2
        /\ Len(calls[i].tree.required) = 2

(***************************************************************************)
(* C17: a run of the command in which a JSON argument fails to parse, or a *)
(* requested format is none of json-schema, typescript, zod and api-doc,   *)
(* ends with exit code 1 before the inference and every renderer, creates  *)
(* no directory and writes no file; no run writes a file and then fails.   *)
(***************************************************************************)
CliRan == op = "cli"

SomeArgumentMalformed ==
    \E i \in 1..Len(request.jsonStrings) : request.jsonStrings[i] = Malformed

SomeFormatInvalid ==
    /\ request.options.formats # <<"all">>
    /\ \E i \in 1..Len(request.options.formats) :
          Trim(request.options.formats[i]) \notin Range(ALL_FORMATS)

C17_InvalidInputRejectedFirst ==
    CliRan =>
        /\ (SomeArgumentMalformed \/ SomeFormatInvalid) =>
              /\ proc.exit = 1
              /\ calls = <<>> /\ typeDef = Undefined /\ outputs = <<>>
              /\ ~proc.mkdir /\ proc.writes = <<>> /\ proc.stdout = <<>>
        /\ proc.exit # 0 => (~proc.mkdir /\ proc.writes = <<>>)
        /\ proc.exit \in {0, 1}

\* the second of two arguments is malformed and a format is unknown, in a
\* run that would write into a directory that does not exist
C17_Witness ==
    /\ CliRan
    /\ Len(request.jsonStrings) = 2
    /\ request.jsonStrings[1] # Malformed /\ request.jsonStrings[2] = Malformed
    /\ SomeFormatInvalid
    /\ \E i \in 1..Len(request.options.formats) : request.options.formats[i] = "typescript"
    /\ request.options.write /\ ~request.options.dirExists
    /\ proc.exit = 1
    /\ proc.stderr # <<>>

(***************************************************************************)
(* C18: a run of the command with valid input that writes files writes,    *)
(* for each selected format, the file named prefix and the suffix of the   *)
(* format (json-schema .schema.json, typescript .ts, zod .zod.ts, api-doc  *)
(* .md), holding the rendering of the inferred type in that format, and    *)
(* writes no file for a format that was not selected.                      *)
(***************************************************************************)
\* the formats the run selected
SelectedFormats ==
    IF request.options.formats = <<"all">>
    THEN {"json-schema", "typescript", "zod", "api-doc"}
    ELSE {Trim(request.options.formats[i]) : i \in 1..Len(request.options.formats)}

SuffixOf(format) ==
    CASE format = "json-schema" -> ".schema.json"
      [] format = "typescript" -> ".ts"
      [] format = "zod" -> ".zod.ts"
      [] format = "api-doc" -> ".md"

\* the rendering of type t under the name typeName in a format
RenderingIn(format, typeName, t) ==
    CASE format = "json-schema" -> generateJsonSchema(typeName, t)
      [] format = "typescript" -> generateTypeScript(typeName, t)
      [] format = "zod" -> ZodImport \o generateZod(typeName, t)
      [] format = "api-doc" -> generateApiDoc(typeName, t)

\* the type the command is to infer from its arguments
TypeOfArguments ==
    IF Len(examples) > 1 THEN inferTypeFromExamples(examples) ELSE inferType(examples[1])

FilesWritten == {proc.writes[i].file : i \in 1..Len(proc.writes)}

CliWrote == CliCompleted /\ request.options.write

C18_OneFilePerSelectedFormat ==
    CliWrote =>
        /\ FilesWritten = {<<request.options.prefix, SuffixOf(f)>> : f \in SelectedFormats}
        /\ \A f \in SelectedFormats :
              \A i \in 1..Len(proc.writes) :
                  proc.writes[i].file = <<request.options.prefix, SuffixOf(f)>> =>
                      proc.writes[i].content
                          = RenderingIn(f, request.options.prefix, TypeOfArguments)
        /\ proc.mkdir <=> ~request.options.dirExists

\* two examples, the formats zod and typescript given with blanks, and the
\* two files User.zod.ts and User.ts written into a new directory
C18_Witness ==
    /\ CliWrote
    /\ Len(examples) = 2
    /\ request.options.formats = <<"zod ", " typescript">>
    /\ request.options.prefix = "User"
    /\ FilesWritten = {<<"User", ".zod.ts">>, <<"User", ".ts">>}
    /\ proc.mkdir

(***************************************************************************)
(* C19: a run of the command with --no-write creates no directory and      *)
(* writes no file, however it ends; a completed one prints the output of   *)
(* each selected format, and of no other, in the order of selection.       *)
(***************************************************************************)
\* the formats the run selected, in the order of selection
SelectionOrder ==
    IF request.options.formats = <<"all">>
    THEN <<"json-schema", "typescript", "zod", "api-doc">>
    ELSE [i \in 1..Len(request.options.formats) |-> Trim(request.options.formats[i])]

\* the outputs printed, in the order of printing
Printed == SelectSeq(proc.stdout, LAMBDA l : "text" \in DOMAIN l)

C19_NoWritePrintsSelected ==
    (CliRan /\ ~request.options.write) =>
        /\ ~proc.mkdir
        /\ proc.writes = <<>>
        /\ proc.exit = 0 =>
              /\ Len(Printed) = Len(SelectionOrder)
              /\ \A i \in 1..Len(Printed) :
                    /\ Printed[i].line = SelectionOrder[i]
                    /\ Printed[i].text = RenderingIn(SelectionOrder[i],
                                                     request.options.prefix, TypeOfArguments)

\* api-doc, zod and api-doc again were printed, in that order, while the
\* output directory does not exist
C19_Witness ==
    /\ CliRan
    /\ ~request.options.write /\ ~request.options.dirExists
    /\ proc.exit = 0
    /\ request.options.formats = <<"api-doc", "zod", "api-doc">>
    /\ Len(Printed) = 3
    /\ Printed[1].line = "api-doc" /\ Printed[2].line = "zod" /\ Printed[3].line = "api-doc"

(***************************************************************************)
(* C20: a property whose value is an array in every example that has it    *)
(* merges to {kind: array, items: M}, M being the merge of the item types  *)
(* of those examples: the object merge when all are objects (an item key   *)
(* is required iff the first element of every such array has it), the      *)
(* kind they share when it is a primitive one, {kind: string} when the     *)
(* kinds differ.                                                           *)
(***************************************************************************)
\* the examples that have the key k, in input order
Having(k) == SelectSeq(examples, LAMBDA e : k \in ExampleKeys(e))

ArrayInEveryExample(k) ==
    /\ Having(k) # <<>>
    /\ \A i \in 1..Len(Having(k)) : ExampleValue(Having(k)[i], k).t = "array"

\* the item type of an array value: of its first element, string when empty
ItemTypeOf(v) == IF v.elems = <<>> THEN [kind |-> "string"] ELSE inferType(v.elems[1])

ItemTypes(k) == [i \in 1..Len(Having(k)) |-> ItemTypeOf(ExampleValue(Having(k)[i], k))]

\* the keys of the first element of the i-th array under k
FirstElementKeys(k, i) == ExampleKeys(ExampleValue(Having(k)[i], k).elems[1])

MergedArrayProperty(k) ==
    LET its == ItemTypes(k)
        kinds == {its[i].kind : i \in 1..Len(its)}
    IN  /\ HasOwn(typeDef.properties, k)
        /\ PropType(typeDef, k).kind = "array"
        /\ DOMAIN PropType(typeDef, k) = {"kind", "items"}
        /\ PropType(typeDef, k).items = mergeTypes(its)
        /\ kinds = {"object"} =>
              LET M == PropType(typeDef, k).items
              IN  /\ M.kind = "object"
                  /\ PropKeys(M) = UNION {FirstElementKeys(k, i) : i \in 1..Len(its)}
                  /\ \A q \in PropKeys(M) \cup Range(M.required) :
                        q \in Range(M.required)
                            <=> \A i \in 1..Len(its) : q \in FirstElementKeys(k, i)
        /\ \A p \in {"string", "number", "boolean", "null"} :
              kinds = {p} => PropType(typeDef, k).items = [kind |-> p]
        /\ Cardinality(kinds) >= 2 => PropType(typeDef, k).items = [kind |-> "string"]

C20_ArrayPropertyMergesItems ==
    MergedObjects =>
        \A k \in UNION {ExampleKeys(examples[i]) : i \in 1..Len(examples)} :
            ArrayInEveryExample(k) => MergedArrayProperty(k)

(***************************************************************************)
(* C21: a property that k of the N examples have, 0 < k < N, with an       *)
(* object under it in each, is optional, and its type is the merge of the  *)
(* types of those k values only: a nested key is required in it iff every  *)
(* one of the k values has that key; with k = 1 it is the node inferred    *)
(* from the one value.                                                     *)
(***************************************************************************)
\* the values under the key k of the examples that have it, in input order
ValuesUnder(k) == [i \in 1..Len(Having(k)) |-> ExampleValue(Having(k)[i], k)]

\* some but not all of the examples have the key k, each with an object
ObjectInSomeExamples(k) ==
    /\ Len(Having(k)) > 0
    /\ Len(Having(k)) < Len(examples)
    /\ \A i \in 1..Len(Having(k)) : ValuesUnder(k)[i].t = "object"

MergedOverHolders(k) ==
    LET vals == ValuesUnder(k)
    IN  /\ k \notin Range(typeDef.required)
        /\ HasOwn(typeDef.properties, k)
        /\ PropType(typeDef, k) = mergeTypes([i \in 1..Len(vals) |-> inferType(vals[i])])
        /\ PropType(typeDef, k).kind = "object"
        /\ \A q \in Keys :
              q \in Range(PropType(typeDef, k).required)
                  <=> \A i \in 1..Len(vals) : q \in ExampleKeys(vals[i])
        /\ Len(vals) = 1 => PropType(typeDef, k) = inferType(vals[1])

C21_OptionalObjectPropertyMergesItsHolders ==
    MergedObjects =>
        \A k \in UNION {ExampleKeys(examples[i]) : i \in 1..Len(examples)} :
            ObjectInSomeExamples(k) => MergedOverHolders(k)

(***************************************************************************)
(* C22: the properties map and the required list of a merge of N >= 2      *)
(* object examples enumerate the names in first-seen order: p comes before *)
(* q when the first example that has p comes before the first that has q,  *)
(* or when it is the same example and p comes before q among its keys.     *)
(***************************************************************************)
\* the first example that has the key k, and the place of k among its keys
FirstExampleWith(k) ==
    CHOOSE i \in 1..Len(examples) :
        /\ k \in ExampleKeys(examples[i])
        /\ \A j \in 1..(i - 1) : k \notin ExampleKeys(examples[j])

PlaceIn(names, k) == CHOOSE i \in 1..Len(names) : names[i] = k

SeenBefore(p, q) ==
    \/ FirstExampleWith(p) < FirstExampleWith(q)
    \/ /\ FirstExampleWith(p) = FirstExampleWith(q)
       /\ PlaceIn(ObjectKeys(examples[FirstExampleWith(p)].entries), p)
              < PlaceIn(ObjectKeys(examples[FirstExampleWith(q)].entries), q)

\* the names of a list are examples' keys, each once, in first-seen order
InFirstSeenOrder(names) ==
    /\ IsInjective(names)
    /\ \A i \in 1..Len(names) : \E j \in 1..Len(examples) : names[i] \in ExampleKeys(examples[j])
    /\ \A i, j \in 1..Len(names) : i < j => SeenBefore(names[i], names[j])

C22_NamesInFirstSeenOrder ==
    MergedObjects =>
        /\ InFirstSeenOrder(ObjectKeys(typeDef.properties))
        /\ InFirstSeenOrder(typeDef.required)

(***************************************************************************)
(* C23: the TypeScript renderer writes an array node as Array<T> exactly   *)
(* when its element type is an array or an object with at least one        *)
(* property, and as T[] for every other element type.                      *)
(***************************************************************************)
\* the pieces of sub occur in text, in a row
Occurs(sub, text) ==
    \E i \in 0..(Len(text) - Len(sub)) : SubSeq(text, i + 1, i + Len(sub)) = sub

\* the array nodes of the tree that have items, at every depth
ArrayNodes == {n \in Nodes(typeDef) : KindOf(n) = "array" /\ HasItems(n)}

\* the element type is an array or an object literal
ArrayOrLiteral(t) ==
    \/ KindOf(t) = "array"
    \/ KindOf(t) = "object" /\ ~NoProperties(t)

TableRows ==
    SelectSeq(Split(OutputNamed(ApiDocNames), "\n"),
              LAMBDA line : Len(line) >= 1 /\ line[1] = "| ")

TableRow(name, t, required) ==
    <<"| ", name, " | ", Backtick>> \o getTypeDisplayName(t)
        \o <<Backtick, " | ", required, " | ", getTypeDescription(t), " |">>

TopLevelProperties == IF "properties" \in DOMAIN typeDef THEN typeDef.properties ELSE <<>>

OneRowPerProperty ==
    /\ Len(TableRows) = Len(TopLevelProperties)
    /\ \A i \in 1..Len(TopLevelProperties) :
          TableRows[i] =
              TableRow(TopLevelProperties[i].key, TopLevelProperties[i].value,
                       IF TopLevelProperties[i].key \in RequiredSet(typeDef)
                       THEN "Yes" ELSE "No")

OneValueRow == TableRows = <<TableRow("*value*", typeDef, "Yes")>>

C24_OneRowPerTopLevelProperty ==
    HasOutput(ApiDocNames) =>
        IF KindOf(typeDef) = "object" THEN OneRowPerProperty ELSE OneValueRow

\* C24, with the root that decides: the rows are one per property when the
\* root is an object that has a properties map, empty or not; a root of any
\* other kind, and an object root without a properties map, gets the one
\* row *value*.
C24_OneRowPerPropertyOfAMap ==
    HasOutput(ApiDocNames) =>
        IF KindOf(typeDef) = "object" /\ "properties" \in DOMAIN typeDef
        THEN OneRowPerProperty
        ELSE OneValueRow

\* the documentation of an object with a required and an optional property
\* has been generated
C24_Witness ==
    /\ HasOutput(ApiDocNames)
    /\ KindOf(typeDef) = "object"
    /\ Len(TopLevelProperties) = 2
    /\ \E i, j \in 1..2 :
          /\ TopLevelProperties[i].key \in RequiredSet(typeDef)
          /\ TopLevelProperties[j].key \notin RequiredSet(typeDef)

(***************************************************************************)
(* C25: an object node without a property, at any depth, is written        *)
(* Record<string, any> by the TypeScript renderer and z.record(z.any()) by *)
(* the Zod renderer, never as an empty literal or an empty z.object; an    *)
(* object node with a property is never written as a record.               *)
(***************************************************************************)
RECURSIVE CountObjects(_, _)
RECURSIVE CountInProperties(_, _, _)

\* the object nodes of the tree t, counted where they stand, that have no
\* property (empty = TRUE) or that have one (empty = FALSE)
CountObjects(t, empty) ==
    (IF KindOf(t) = "object" /\ NoProperties(t) = empty THEN 1 ELSE 0)
        + (IF KindOf(t) = "array" /\ HasItems(t) THEN CountObjects(t.items, empty) ELSE 0)
        + (IF KindOf(t) = "object" /\ ~NoProperties(t)
           THEN CountInProperties(t.properties, 1, empty) ELSE 0)

CountInProperties(properties, i, empty) ==
    IF i > Len(properties) THEN 0
    ELSE CountObjects(properties[i].value, empty)
             + CountInProperties(properties, i + 1, empty)

\* how many times a piece stands in a text
CountPieces(text, piece) == Cardinality({i \in 1..Len(text) : text[i] = piece})

C25_RecordIffNoProperty ==
    (HasOutput(TypeScriptNames) /\ HasOutput(ZodNames)) =>
        /\ CountPieces(OutputNamed(TypeScriptNames), "Record<string, any>")
               = CountObjects(typeDef, TRUE)
        /\ CountPieces(OutputNamed(TypeScriptNames), "{") = CountObjects(typeDef, FALSE)
        /\ ~Occurs(<<"{", "\n", "\n">>, OutputNamed(TypeScriptNames))
        /\ CountPieces(OutputNamed(ZodNames), "z.record(z.any())")
               = CountObjects(typeDef, TRUE)
        /\ CountPieces(OutputNamed(ZodNames), "z.object({") = CountObjects(typeDef, FALSE)
        /\ ~Occurs(<<"z.object({", "\n", "\n">>, OutputNamed(ZodNames))

\* a tree with an object that has a property and, below the root, an object
\* with an empty properties map has been rendered by both
C25_Witness ==
    /\ HasOutput(TypeScriptNames) /\ HasOutput(ZodNames)
    /\ CountObjects(typeDef, FALSE) >= 1
    /\ \E n \in Nodes(typeDef) \ {typeDef} :
          KindOf(n) = "object" /\ "properties" \in DOMAIN n /\ n.properties = <<>>

(***************************************************************************)
(* C26: every array node, at every depth, of a tree that inference returns *)
(* has items: the renderers' fallbacks for an array without items (any[],  *)
(* z.array(z.any()), the default items of the JSON Schema) are not reached *)
(* for it, and a merge of array candidates merges their items.             *)
(***************************************************************************)
\* generateAll or the command inferred the type and rendered it
InferredAndRendered == op = "generateAll" \/ CliCompleted

RECURSIVE ItemsFromNode(_, _)
\* in the schema s of the tree t, the items of every array are rendered from
\* the items of its node
ItemsFromNode(t, s) ==
    /\ KindOf(t) = "array" =>
          /\ HasItems(t)
          /\ "items" \in DOMAIN s
          /\ s.items = convertTypeToJsonSchema(t.items)
          /\ ItemsFromNode(t.items, s.items)
    /\ (KindOf(t) = "object" /\ "properties" \in DOMAIN s) =>
          \A i \in 1..Len(s.properties) :
              /\ HasOwn(t.properties, s.properties[i].key)
              /\ ItemsFromNode(OwnValue(t.properties, s.properties[i].key),
                               s.properties[i].value)

\* the calls of mergeTypes in the run of the command
MergesOfTheRun ==
    IF CliCompleted /\ Len(examples) >= 2 /\ AllObjects
    THEN MergeObjectCalls([i \in 1..Len(examples) |-> inferType(examples[i])])
    ELSE {}

ArrayCandidates(types) ==
    Len(types) >= 2 /\ \A i \in 1..Len(types) : KindOf(types[i]) = "array"

C26_InferredArraysHaveItems ==
    InferredAndRendered =>
        /\ \A n \in Nodes(typeDef) : KindOf(n) = "array" => HasItems(n)
        /\ CountPieces(OutputNamed(TypeScriptNames), "any[]") = 0
        /\ CountPieces(OutputNamed(ZodNames), "z.array(z.any())") = 0
        /\ CountPieces(OutputNamed(ApiDocNames), "any[]") = 0
        /\ ItemsFromNode(typeDef, OutputNamed(JsonNames))
        /\ \A types \in MergesOfTheRun :
              ArrayCandidates(types) => \A i \in 1..Len(types) : HasItems(types[i])

\* the command merged two examples with an array under the same key, and
\* rendered the result
C26_Witness ==
    /\ CliCompleted
    /\ \E types \in MergesOfTheRun : ArrayCandidates(types)
    /\ \E n \in Nodes(typeDef) : KindOf(n) = "array"

(***************************************************************************)
(* C27: for N >= 2 examples that are all objects, the merged result is the *)
(* same for every order of the examples, up to the order of the names: the *)
(* same property names, the same required names, and under every name the  *)
(* same type, compared the same way at every depth.                        *)
(***************************************************************************)
RECURSIVE Unordered(_)
\* the tree t with every properties map as a set of names with their types
\* and every required list as a set of names
Unordered(t) ==
    IF "kind" \notin DOMAIN t THEN t
    ELSE [kind |-> t.kind]
             @@ (IF "items" \in DOMAIN t THEN [items |-> Unordered(t.items)] ELSE <<>>)
             @@ (IF "properties" \in DOMAIN t
                 THEN [properties |->
                          {<<t.properties[i].key, Unordered(t.properties[i].value)>> :
                              i \in 1..Len(t.properties)}]
                 ELSE <<>>)
             @@ (IF "required" \in DOMAIN t THEN [required |-> Range(t.required)] ELSE <<>>)

\* the examples in every order
Reorderings ==
    {[i \in 1..Len(examples) |-> examples[f[i]]] :
        f \in {g \in [1..Len(examples) -> 1..Len(examples)] :
                   \A i, j \in 1..Len(examples) : g[i] = g[j] => i = j}}

C27_MergeIgnoresExampleOrder ==
    MergedObjects =>
        \A reordered \in Reorderings :
            Unordered(inferTypeFromExamples(reordered)) = Unordered(typeDef)

\* three different objects were merged, with a property of conflicting
\* kinds and a nested object, and some order of them lists the names in
\* another order
C27_Witness ==
    /\ MergedObjects
    /\ Len(examples) = 3
    /\ Cardinality(Range(examples)) = 3
    /\ \E k \in PropKeys(typeDef) : KindConflict(k)
    /\ \E reordered \in Reorderings : inferTypeFromExamples(reordered) # typeDef

(***************************************************************************)
(* C28: the renderers agree on required and optional at every depth.  For  *)
(* every object node with a property inside a tree that inference          *)
(* produced, below the root as well, a property is in the required of the  *)
(* node's JSON Schema object iff its TypeScript field has no ? iff its Zod *)
(* field has no .optional().                                               *)
(***************************************************************************)
RECURSIVE NodeSchemas(_, _, _, _)
\* every node of the tree t with the schema object that stands for it in
\* the JSON Schema s of t, and the indentations at which the TypeScript
\* and the Zod renderer reach it when they reach t at ts and at zod: a
\* property value one and two deeper, array items at the same
NodeSchemas(t, s, ts, zod) ==
    {<<t, s, ts, zod>>}
        \cup (IF KindOf(t) = "array" /\ HasItems(t) /\ "items" \in DOMAIN s
              THEN NodeSchemas(t.items, s.items, ts, zod) ELSE {})
        \cup (IF KindOf(t) = "object" /\ "properties" \in DOMAIN t
                    /\ "properties" \in DOMAIN s
              THEN UNION {NodeSchemas(t.properties[i].value,
                                      OwnValue(s.properties, t.properties[i].key),
                                      ts + 1, zod + 2) :
                             i \in {j \in 1..Len(t.properties) :
                                       HasOwn(s.properties, t.properties[j].key)}}
              ELSE {})

\* a text without the pieces that only indent
Blanks == {"  ", "    "}
Strip(text) == SelectSeq(text, LAMBDA piece : piece \notin Blanks)

\* the first d pieces of a line are the indentation of depth d
IndentedBy(line, d) == Len(line) >= d /\ \A i \in 1..d : line[i] = "  "

\* the field lines of p in an object literal written at indentation d
FieldLinesAt(text, d, p) ==
    LET lines == Split(text, "\n")
    IN  {lines[i] : i \in {j \in 1..Len(lines) :
             /\ Len(lines[j]) >= d + 3
             /\ IndentedBy(lines[j], d + 1)
             /\ lines[j][d + 2] = p
             /\ lines[j][d + 3] \in {"?", ": "}}}

\* the last lines of the fields of p in a z.object written at indentation d:
\* a field starts after the indentation and four blanks, and runs over the
\* lines that follow and are indented deeper
ZodFieldEndsAt(text, d, p) ==
    LET lines == Split(text, "\n")
        Starts(i) == /\ Len(lines[i]) >= d + 3
                     /\ IndentedBy(lines[i], d)
                     /\ lines[i][d + 1] = "    "
                     /\ lines[i][d + 2] = p
                     /\ lines[i][d + 3] = ": "
        Deeper(i) == /\ Len(lines[i]) >= d + 2
                     /\ IndentedBy(lines[i], d)
                     /\ lines[i][d + 1] = "    "
                     /\ lines[i][d + 2] = "  "
    IN  {lines[j] : j \in {k \in 1..Len(lines) :
             \E i \in 1..k :
                 /\ Starts(i)
                 /\ \A m \in (i + 1)..k : Deeper(m)
                 /\ (k = Len(lines) \/ ~Deeper(k + 1))}}

EndsOptional(line) ==
    Len(line) >= 2 /\ line[Len(line)] = "," /\ line[Len(line) - 1] = ".optional()"

\* the literals of the node n, written at the indentations ts and zod, are
\* in the generated texts
LiteralsWritten(n, ts, zod) ==
    /\ Occurs(convertTypeToTypeScript(n, ts), OutputNamed(TypeScriptNames))
    /\ Occurs(Strip(convertTypeToZod(n, zod)), Strip(OutputNamed(ZodNames)))

\* the three renderings of the node n, whose schema object is s, agree on p
AgreeOn(n, s, ts, zod, p) ==
    LET json == "required" \in DOMAIN s /\ p \in Range(s.required)
        fields == FieldLinesAt(convertTypeToTypeScript(n, ts), ts, p)
        ends == ZodFieldEndsAt(convertTypeToZod(n, zod), zod, p)
    IN  /\ fields # {}
        /\ \A line \in fields : json <=> line[ts + 3] # "?"
        /\ ends # {}
        /\ \A line \in ends : json <=> ~EndsOptional(line)

\* the nodes the claim is about, with their schema objects
ObjectsWithFields ==
    {ns \in NodeSchemas(typeDef, OutputNamed(JsonNames), 0, 0) :
        KindOf(ns[1]) = "object" /\ ~NoProperties(ns[1])}

MaxStarts == 3
MaxFrames == 12

\* icons.spinner, the ten frames
icons_spinner ==
    <<"spinner[0]", "spinner[1]", "spinner[2]", "spinner[3]", "spinner[4]",
      "spinner[5]", "spinner[6]", "spinner[7]", "spinner[8]", "spinner[9]">>

\* chalk.cyan, chalk.green and chalk.red wrap a text in their escape codes
colors_highlight(text) == <<"ESC[36m", text, "ESC[39m">>
colors_success(text) == <<"ESC[32m", text, "ESC[39m">>
colors_error(text) == <<"ESC[31m", text, "ESC[39m">>

\* the messages of the model; the last two are those of the demo
Messages == {"", "Simulating async work...", "Processing step 1/5..."}

\* the finalMsg arguments of the model: left out, empty, and the demo's
FinalMessages == {"undefined", "", "Async work complete!"}

\* if (finalMsg)
HasFinalMessage(finalMsg) == finalMsg \notin {"undefined", ""}

\* the text of one frame
FrameText ==
    <<"\r">> \o colors_highlight(icons_spinner[frame + 1])
        \o <<" ", currentMessage, "   ">>

IsFrame(text) == Len(text) > 2 /\ text[2] = "ESC[36m"

\* '\r' + ' '.repeat(60) + '\r'
ClearLine == <<"\r", "' '.repeat(60)", "\r">>

\* const spinner = createSpinner(message)
InitSpinner ==
    /\ examples = <<>>
    /\ op = "createSpinner"
    /\ arg = 0
    /\ typeDef = Undefined
    /\ request = <<>>
    /\ calls = <<>>
    /\ outputs = <<>>
    /\ proc = NoProc
    /\ heap = <<>>
    /\ frame = 0
    /\ interval = {}
    /\ currentMessage \in Messages
    /\ timers = {}
    /\ created = 0
    /\ stdout = [frames |-> 0, last |-> <<>>]

\* spinner.start(): interval = setInterval(callback, 80)
SpinnerStart ==
    /\ created < MaxStarts
    /\ created' = created + 1
    /\ timers' = timers \cup {created + 1}
    /\ interval' = {created + 1}
    /\ op' = "start"
    /\ UNCHANGED <<examples, arg, typeDef, request, calls, outputs, proc, heap,
                   frame, currentMessage, stdout>>

\* the callback of an active interval timer runs
SpinnerTick ==
    /\ timers # {}
    /\ stdout.frames < MaxFrames
    /\ stdout' = [frames |-> stdout.frames + 1, last |-> FrameText]
    /\ frame' = (frame + 1) % Len(icons_spinner)
    /\ UNCHANGED <<examples, op, arg, typeDef, request, calls, outputs, proc, heap,
                   interval, currentMessage, timers, created>>

\* spinner.update(msg)
SpinnerUpdate ==
    /\ \E msg \in Messages : currentMessage' = msg
    /\ op' = "update"
    /\ UNCHANGED <<examples, arg, typeDef, request, calls, outputs, proc, heap,
                   frame, interval, timers, created, stdout>>

\* spinner.stop(success, finalMsg): clearInterval of the handle held, the
\* line cleared, and the final message logged when there is one
SpinnerStop ==
    /\ timers' = timers \ interval
    /\ interval' = {}
    /\ \E success \in BOOLEAN, finalMsg \in FinalMessages :
          LET icon == IF success THEN colors_success("icons.success")
                                 ELSE colors_error("icons.error")
          IN  stdout' = [stdout EXCEPT !.last =
                            IF HasFinalMessage(finalMsg)
                            THEN icon \o <<" ", finalMsg, "\n">>
                            ELSE ClearLine]
    /\ op' = "stop"
    /\ UNCHANGED <<examples, arg, typeDef, request, calls, outputs, proc, heap,
                   frame, currentMessage, created>>

NextSpinner == SpinnerStart \/ SpinnerTick \/ SpinnerUpdate \/ SpinnerStop

SpecSpinner == InitSpinner /\ [][NextSpinner]_vars

(***************************************************************************)
(* C29: when the last call on a spinner was stop(), no interval timer the  *)
(* spinner created is active and the last text written is not a spinner    *)
(* frame; and the frame index is always one of 0..9.                       *)
(***************************************************************************)
FrameInRange == frame \in 0..9

C29_StoppedSpinnerHasNoTimer ==
    /\ FrameInRange
    /\ op = "stop" => /\ timers = {}
                      /\ ~IsFrame(stdout.last)

====
